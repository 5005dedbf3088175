---------------------------- MODULE ProfileStore -----------------------------
(* The game profiles of the manager: the registry keys of ProfileStore     *)
(* (launcher/manager_model.cpp) and the list, the combo box and the form of*)
(* the window (launcher/manager_main.cpp) that edits them.  A profile is   *)
(* written value by value without a roll-back, every write may fail, and the*)
(* manager may be killed between two of them.  Path and arguments of the   *)
(* game are one value here, and the preference to start SimHub, which is   *)
(* written after its folder, is left out.  A text is nothing, a default, or*)
(* the version v that was typed while the profile id was shown.            *)
EXTENDS Naturals, Sequences, FiniteSets

CONSTANTS
  Ids,              \* the identifiers CoCreateGuid may make: positive numbers
  MaximumProfiles,  \* kMaximumProfiles (64)
  Versions          \* versions of a text the user types: positive numbers

VARIABLES
  store,     \* Profiles: a content for every key
  active,    \* ActiveProfile
  open,      \* a manager has its window open
  profiles,  \* profiles_
  current,   \* current_index_
  combo,     \* the combo box: its items and its selection
  form,      \* what the edit controls show
  unsure     \* profiles whose last write was not completed; ActiveId for active

windowVars == <<open, profiles, current, combo, form>>
vars       == <<store, active, windowVars, unsure>>

NoText      == <<0, 0>>
DefaultText == <<0, 1>>
Typed(id)   == {<<id, v>> : v \in Versions}
Nothing     == [name |-> NoText, game |-> NoText, folder |-> NoText]

(* A new profile: New gives it the SimHub folder that the form shows, and  *)
(* the first one of all gets default_simhub_path.                          *)
NewContent(folder) == [name |-> DefaultText, game |-> NoText, folder |-> folder]
DefaultContent     == NewContent(DefaultText)
NoId        == 0
ActiveId    == 0

Init ==
  /\ store = [id \in {} |-> Nothing] /\ active = NoId /\ unsure = {}
  /\ open = FALSE /\ profiles = <<>> /\ current = 1
  /\ combo = [items |-> <<>>, at |-> 1] /\ form = Nothing

(***************************************************************************)
(* ProfileStore.                                                           *)
(***************************************************************************)

(* The registry after the first n steps of save: the key, the name, the    *)
(* values of the game, those of SimHub, the active profile.                *)
AllValues == 4
WithActive == 5
Stored(s, id, c, n) ==
  IF n = 0 THEN s
  ELSE LET old == IF id \in DOMAIN s THEN s[id] ELSE Nothing
           new == [name |-> IF n >= 2 THEN c.name ELSE old.name,
                   game |-> IF n >= 3 THEN c.game ELSE old.game,
                   folder |-> IF n >= AllValues THEN c.folder ELSE old.folder]
       IN  [i \in DOMAIN s \cup {id} |-> IF i = id THEN new ELSE s[i]]
Activated(id, n) == IF n = WithActive THEN id ELSE active

(* What is unsure after a save that was to take need steps and took n.     *)
Unsure(u, id, n, need) ==
  IF n = need THEN u \ (IF need = WithActive THEN {id, ActiveId} ELSE {id})
  ELSE IF n = 0 THEN u ELSE u \cup {id}

Erased(s, id) == [i \in DOMAIN s \ {id} |-> s[i]]

(* load: the keys in their order; a profile without a name gets one.       *)
Named(c) == IF c.name = NoText THEN [c EXCEPT !.name = DefaultText] ELSE c
Keys     == CHOOSE f \in [1..Cardinality(DOMAIN store) -> DOMAIN store] :
              \A i, j \in DOMAIN f : i < j => f[i] < f[j]
Loaded   == [i \in DOMAIN Keys |-> [id |-> Keys[i], content |-> Named(store[Keys[i]])]]

(***************************************************************************)
(* The window.                                                             *)
(***************************************************************************)
Names(ps)     == [i \in DOMAIN ps |-> ps[i].content.name]
IndexOf(ps, id) == IF \E i \in DOMAIN ps : ps[i].id = id THEN CHOOSE i \in DOMAIN ps : ps[i].id = id ELSE 1
CurrentId     == profiles[current].id

(* refresh_profile_combo and load_profile_to_form.                         *)
Show(ps, id) ==
  LET i == IndexOf(ps, id) IN
    /\ profiles' = ps /\ current' = i
    /\ combo' = [items |-> Names(ps), at |-> i] /\ form' = ps[i].content

Shut == open' = FALSE /\ profiles' = <<>> /\ current' = 1
        /\ combo' = [items |-> <<>>, at |-> 1] /\ form' = Nothing
Stays == UNCHANGED windowVars
Fails == Stays \/ Shut    \* a message box, or the end of the process at that point

(* initialize_state: too many profiles, and the window does not open; none,*)
(* and a default is made and must be saved.                                *)
OpenWindow ==
  /\ ~open /\ Cardinality(DOMAIN store) <= MaximumProfiles
  /\ IF DOMAIN store # {}
       THEN /\ Show(Loaded, active) /\ open' = TRUE
            /\ unsure' = IF active \in DOMAIN store THEN {} ELSE {ActiveId}
            /\ UNCHANGED <<store, active>>
       ELSE \E id \in Ids \ {active}, n \in 0..WithActive :
              /\ store' = Stored(store, id, DefaultContent, n) /\ active' = Activated(id, n)
              /\ unsure' = Unsure({}, id, n, WithActive)
              /\ IF n = WithActive THEN Show(<<[id |-> id, content |-> DefaultContent]>>, id) /\ open' = TRUE
                                   ELSE Shut

Type ==
  /\ open
  /\ \/ \E t \in Typed(CurrentId) :
          form' \in {[form EXCEPT !.name = t, !.game = t], [form EXCEPT !.folder = t]}
     \/ form' = [form EXCEPT !.name = NoText]
  /\ UNCHANGED <<store, active, open, profiles, current, combo, unsure>>

(* save_current, also the first step of a check, an installation, a launch.*)
(* Its parts, by the number of steps it takes:                             *)
SavedCurrent == [profiles EXCEPT ![current].content = form]
Relabelled(ps) == [combo EXCEPT !.items[current] = ps[current].content.name, !.at = current]
SaveStops(n) ==
  /\ store' = Stored(store, CurrentId, form, n) /\ UNCHANGED active
  /\ unsure' = Unsure(unsure, CurrentId, n, WithActive)
  /\ Fails
SaveCurrent ==
  /\ open
  /\ \/ form.name = NoText /\ UNCHANGED vars
     \/ form.name # NoText /\ \E n \in 0..AllValues : SaveStops(n)
     \/ /\ form.name # NoText
        /\ store' = Stored(store, CurrentId, form, WithActive) /\ active' = CurrentId
        /\ unsure' = Unsure(unsure, CurrentId, WithActive, WithActive)
        /\ profiles' = SavedCurrent /\ combo' = Relabelled(SavedCurrent)
        /\ UNCHANGED <<open, current, form>>

(* CBN_SELCHANGE: the shown profile is saved without being made active, and*)
(* the selected one is shown and made active.                              *)
LeaveProfile(n) ==
  /\ store' = Stored(store, CurrentId, form, n)
  /\ UNCHANGED active /\ unsure' = Unsure(unsure, CurrentId, n, AllValues)
(* Variants with a fault: the new name does not reach the items; the controls*)
(* keep their texts.                                                       *)
EnterUnlabelled(i) ==
  /\ profiles' = SavedCurrent /\ current' = i
  /\ combo' = [combo EXCEPT !.at = i] /\ form' = SavedCurrent[i].content
EnterUnloaded(i) ==
  /\ profiles' = SavedCurrent /\ current' = i
  /\ combo' = [items |-> Names(SavedCurrent), at |-> i] /\ UNCHANGED form
EnterProfile(i) ==
  /\ profiles' = SavedCurrent /\ current' = i
  /\ combo' = [items |-> Names(SavedCurrent), at |-> i] /\ form' = SavedCurrent[i].content
Select(i) ==
  /\ open /\ form.name # NoText
  /\ \/ \E n \in 0..(AllValues - 1) : LeaveProfile(n) /\ Fails
     \/ /\ store' = Stored(store, CurrentId, form, AllValues)
        /\ \/ /\ active' = profiles[i].id /\ EnterProfile(i) /\ UNCHANGED open
              /\ unsure' = Unsure(unsure, CurrentId, AllValues, AllValues) \ {ActiveId}
           \/ /\ UNCHANGED active /\ ((EnterProfile(i) /\ UNCHANGED open) \/ Shut)
              /\ unsure' = Unsure(unsure, CurrentId, AllValues, AllValues) \cup {ActiveId}

(* Variant with a fault: room for one more than load accepts.              *)
HasRoomForMore == Len(profiles) <= MaximumProfiles

(* kNewProfile: the limit is that of the list.                             *)
HasRoom == Len(profiles) < MaximumProfiles
AddProfile(id, n) ==
  LET saved == Stored(store, CurrentId, form, WithActive)
      new   == NewContent(form.folder)
  IN
    /\ store' = Stored(saved, id, new, n)
    /\ active' = IF n = WithActive THEN id ELSE CurrentId
    /\ unsure' = Unsure(unsure \ {CurrentId, ActiveId}, id, n, WithActive)
    /\ IF n = WithActive
         THEN Show(Append(SavedCurrent, [id |-> id, content |-> new]), id) /\ UNCHANGED open
         ELSE \/ /\ profiles' = SavedCurrent /\ combo' = Relabelled(SavedCurrent)
                 /\ UNCHANGED <<open, current, form>>
              \/ Shut
NewProfile ==
  /\ open /\ HasRoom /\ form.name # NoText
  /\ \/ \E n \in 0..AllValues : SaveStops(n)
     \/ \E id \in Ids \ (DOMAIN store \cup {active}), n \in 0..WithActive : AddProfile(id, n)

(* kDeleteProfile: the first profile is shown and made active; the last one*)
(* is replaced by a default, without which the window closes.              *)
Without(i) == [j \in 1..(Len(profiles) - 1) |-> profiles[IF j < i THEN j ELSE j + 1]]
(* Variant with a fault: the deleted profile stays the active one.         *)
DeleteActive ==
  /\ store' = Erased(store, CurrentId) /\ UNCHANGED <<active, open>>
  /\ Show(Without(current), Without(current)[1].id)
  /\ unsure' = unsure \ {CurrentId, ActiveId}
DeleteOthersLeft ==
  LET left == Without(current) IN
    /\ store' = Erased(store, CurrentId)
    /\ \/ /\ active' = left[1].id /\ Show(left, left[1].id) /\ UNCHANGED open
          /\ unsure' = unsure \ {CurrentId, ActiveId}
       \/ /\ UNCHANGED active /\ ((Show(left, left[1].id) /\ UNCHANGED open) \/ Shut)
          /\ unsure' = (unsure \ {CurrentId}) \cup {ActiveId}
DeleteLast ==
  \E id \in Ids \ (DOMAIN store \cup {active}), n \in 0..WithActive :
    /\ store' = Stored(Erased(store, CurrentId), id, DefaultContent, n) /\ active' = Activated(id, n)
    /\ unsure' = Unsure(unsure \ {CurrentId}, id, n, WithActive)
    /\ IF n = WithActive THEN Show(<<[id |-> id, content |-> DefaultContent]>>, id) /\ UNCHANGED open
                         ELSE Shut
DeleteProfile ==
  /\ open
  /\ IF Len(profiles) > 1 THEN DeleteOthersLeft ELSE DeleteLast

CloseWindow == open /\ Shut /\ UNCHANGED <<store, active, unsure>>

Next ==
  \/ OpenWindow \/ Type \/ SaveCurrent \/ NewProfile \/ DeleteProfile \/ CloseWindow
  \/ \E i \in DOMAIN profiles : Select(i)

Spec == Init /\ [][Next]_vars

(***************************************************************************)
(* Properties.                                                             *)
(***************************************************************************)
Texts    == {NoText, DefaultText} \cup UNION {Typed(id) : id \in Ids}
Contents == [name : Texts, game : Texts, folder : Texts]

TypeOK ==
  /\ DOMAIN store \subseteq Ids /\ \A id \in DOMAIN store : store[id] \in Contents
  /\ active \in Ids \cup {NoId} /\ open \in BOOLEAN
  /\ profiles \in Seq([id : Ids, content : Contents]) /\ Len(profiles) <= MaximumProfiles
  /\ current \in Nat \ {0} /\ combo \in [items : Seq(Texts), at : Nat \ {0}] /\ form \in Contents
  /\ unsure \subseteq Ids \cup {ActiveId}

(* The list, the combo box and the index never disagree between handlers,  *)
(* whatever failed: what the user reads in the combo box is the profile the*)
(* form is saved to.                                                       *)
WindowAgrees ==
  open => /\ current \in DOMAIN profiles
          /\ combo = [items |-> Names(profiles), at |-> current]
          /\ \A i, j \in DOMAIN profiles : profiles[i].id = profiles[j].id => i = j

(* The name and the game of a profile in the registry are defaults or what *)
(* was typed for it.  So is its SimHub folder, but that a profile may be   *)
(* made with the folder of the one shown, as saved in the same step, and   *)
(* keep it until another one is typed for it.                              *)
OwnTexts(id) == {NoText, DefaultText} \cup Typed(id)

InheritsFolder(id) ==
  IF id \in DOMAIN store THEN store'[id].folder = store[id].folder
  ELSE open /\ store'[id].folder = store'[CurrentId].folder

OwnContent(id) ==
  /\ {store'[id].name, store'[id].game} \subseteq OwnTexts(id)
  /\ store'[id].folder \in OwnTexts(id) \/ InheritsFolder(id)

EditsStayHome == [][\A id \in DOMAIN store' : OwnContent(id)]_vars

(* The registry holds what the window lists, and names the profile shown as*)
(* the active one, except where a write has failed.                        *)
StoreFollowsTheList ==
  open => LET listed == {profiles[i].id : i \in DOMAIN profiles} IN
    /\ (DOMAIN store \cup listed) \ unsure \subseteq DOMAIN store \cap listed
    /\ \A i \in DOMAIN profiles :
         profiles[i].id \notin unsure => Named(store[profiles[i].id]) = profiles[i].content
    /\ ActiveId \notin unsure => active = CurrentId

(* A manager can be opened again: the profiles whose writing did not fail  *)
(* never exceed the limit above which load refuses them all.               *)
LoadsAgain == Cardinality(DOMAIN store \ unsure) <= MaximumProfiles
=============================================================================
