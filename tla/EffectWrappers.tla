--------------------------- MODULE EffectWrappers ----------------------------
(***************************************************************************)
(* The life of an effect between the game, the proxy and the driver:       *)
(* WrapperEffect of src/src/wrapper_effect.cpp, with CreateEffect and      *)
(* EnumCreatedEffectObjects of src/src/wrapper_device8.cpp.                *)
(*                                                                         *)
(* The driver keeps a list of the effects of a device and lends each of    *)
(* them to an enumeration.  The proxy looks for the wrapper of the effect  *)
(* in its own registry and passes that to the game, with a temporary       *)
(* reference; an effect without a wrapper is passed as it is.  The last    *)
(* Release leaves the registry under s_registry_lock, then sends a Release *)
(* command, then lets go of the driver's effect.                           *)
(*                                                                         *)
(* One effect of the driver is created, wrapped and freed once; the next   *)
(* one is another element of Effects.  A critical section, a call of the   *)
(* driver and an emit() are one step each.                                 *)
(***************************************************************************)
EXTENDS Integers, FiniteSets

CONSTANTS
  Threads,   \* threads of the game
  Effects,   \* effects that the game creates
  MaxRefs    \* bound: references the game keeps to one object

VARIABLES
  driver,     \* driver[e]: references to the effect of the driver; 0 if there is none
  wrapper,    \* wrapper[e]: "none", "live" or "deleted"
  refs,       \* refs[e]: m_ref_count
  registered, \* registered[e]: m_registered
  kept,       \* kept[e]: references the game owns to the wrapper
  bare,       \* bare[e]: references the game owns to the driver's effect
  thread,     \* thread[t]: the call that t is in
  heard       \* heard[e]: telemetry about the effect, as its receivers hear it

vars == <<driver, wrapper, refs, registered, kept, bare, thread, heard>>

Idle == [at |-> "idle"]

Init ==
  /\ driver = [e \in Effects |-> 0]
  /\ wrapper = [e \in Effects |-> "none"]
  /\ refs = [e \in Effects |-> 0]
  /\ registered = [e \in Effects |-> FALSE]
  /\ kept = [e \in Effects |-> 0]
  /\ bare = [e \in Effects |-> 0]
  /\ thread = [t \in Threads |-> Idle]
  /\ heard = [e \in Effects |-> {}]

At(t, label) == thread[t].at = label

Call(t, label, e) == thread' = [thread EXCEPT ![t] = [at |-> label, effect |-> e]]

Return(t) == thread' = [thread EXCEPT ![t] = Idle]

Hear(e, message) == heard' = [heard EXCEPT ![e] = @ \union {message}]

(* Never created, as far as the driver and the telemetry know.             *)
Fresh(e) == driver[e] = 0 /\ wrapper[e] = "none" /\ heard[e] = {}

(***************************************************************************)
(* CreateEffect: the driver creates the effect; the constructor of the     *)
(* wrapper registers it; EffectCreated is sent and the game gets its       *)
(* reference.  Without a wrapper (no memory, or an aggregated effect) the  *)
(* game gets the effect of the driver.                                     *)
(***************************************************************************)
DriverCreates(t, e) ==
  /\ At(t, "idle") /\ Fresh(e)
  /\ driver' = [driver EXCEPT ![e] = 1]
  /\ Call(t, "register", e)
  /\ UNCHANGED <<wrapper, refs, registered, kept, bare, heard>>

Register(t) ==
  LET e == thread[t].effect IN
  /\ At(t, "register")
  /\ wrapper' = [wrapper EXCEPT ![e] = "live"]
  /\ refs' = [refs EXCEPT ![e] = 1]
  /\ registered' = [registered EXCEPT ![e] = TRUE]
  /\ Call(t, "announce", e)
  /\ UNCHANGED <<driver, kept, bare, heard>>

Announce(t) ==
  LET e == thread[t].effect IN
  /\ At(t, "announce")
  /\ Hear(e, "EffectCreated")
  /\ kept' = [kept EXCEPT ![e] = @ + 1]
  /\ Return(t)
  /\ UNCHANGED <<driver, wrapper, refs, registered, bare>>

NotWrapped(t) ==
  LET e == thread[t].effect IN
  /\ At(t, "register")
  /\ Hear(e, "EffectCreated")
  /\ bare' = [bare EXCEPT ![e] = @ + 1]
  /\ Return(t)
  /\ UNCHANGED <<driver, wrapper, refs, registered, kept>>

(***************************************************************************)
(* EnumCreatedEffectObjects: the driver lends an effect, which stays       *)
(* alive until the callback returns; find_and_add_ref resolves it.         *)
(***************************************************************************)
DriverLends(t, e) ==
  /\ At(t, "idle") /\ driver[e] > 0
  /\ driver' = [driver EXCEPT ![e] = @ + 1]
  /\ Call(t, "find", e)
  /\ UNCHANGED <<wrapper, refs, registered, kept, bare, heard>>

NotDeleted(e) == wrapper[e] = "live"

(* What the search of the registry finds.                                  *)
Found(e) == registered[e]

FindAndAddRef(t) ==
  LET e == thread[t].effect IN
  /\ At(t, "find")
  /\ IF Found(e)
       THEN /\ refs' = [refs EXCEPT ![e] = @ + 1]
            /\ Call(t, "callback", e)
       ELSE /\ Call(t, "bareCallback", e)
            /\ UNCHANGED refs
  /\ UNCHANGED <<driver, wrapper, registered, kept, bare, heard>>

(* The last reference takes the wrapper out of the registry.               *)
StaysRegistered(e) == registered[e] /\ refs[e] # 1

(* Release, under the exclusive lock.                                      *)
Unref(e) ==
  /\ refs' = [refs EXCEPT ![e] = @ - 1]
  /\ registered' = [registered EXCEPT ![e] = StaysRegistered(e)]

CallbackReturns(t) ==
  LET e == thread[t].effect IN
  /\ \/ /\ At(t, "callback")
        /\ Unref(e)
        /\ IF refs[e] = 1 THEN Call(t, "lastCallback", e) ELSE Call(t, "lent", e)
     \/ /\ At(t, "bareCallback")
        /\ Call(t, "lent", e)
        /\ UNCHANGED <<refs, registered>>
  /\ UNCHANGED <<driver, wrapper, kept, bare, heard>>

(* The driver takes back the effect that it had lent.                      *)
DriverTakesBack(t) ==
  LET e == thread[t].effect IN
  /\ At(t, "lent")
  /\ driver' = [driver EXCEPT ![e] = @ - 1]
  /\ Return(t)
  /\ UNCHANGED <<wrapper, refs, registered, kept, bare, heard>>

(***************************************************************************)
(* What the game does with an effect that it owns, or that its callback    *)
(* was given: AddRef and QueryInterface, Release, and the commands that    *)
(* are forwarded and then sent: SetParameters, Start, Stop, Download and   *)
(* Unload.  A call under way uses a reference of its own.                  *)
(***************************************************************************)
AddRef(t, e) ==
  /\ (At(t, "idle") /\ kept[e] > 0) \/ (At(t, "callback") /\ thread[t].effect = e)
  /\ kept[e] < MaxRefs
  /\ refs' = [refs EXCEPT ![e] = @ + 1]
  /\ kept' = [kept EXCEPT ![e] = @ + 1]
  /\ UNCHANGED <<driver, wrapper, registered, bare, thread, heard>>

(* QueryInterface for another interface is answered by the driver.         *)
QueryBare(t, e) ==
  /\ At(t, "idle") /\ kept[e] > 0
  /\ bare[e] < MaxRefs
  /\ bare' = [bare EXCEPT ![e] = @ + 1]
  /\ driver' = [driver EXCEPT ![e] = @ + 1]
  /\ UNCHANGED <<wrapper, refs, registered, kept, thread, heard>>

Command(t, e) ==
  /\ At(t, "idle") /\ kept[e] > 0
  /\ kept' = [kept EXCEPT ![e] = @ - 1]
  /\ Call(t, "emit", e)
  /\ UNCHANGED <<driver, wrapper, refs, registered, bare, heard>>

EmitCommand(t) ==
  LET e == thread[t].effect IN
  /\ At(t, "emit")
  /\ Hear(e, "Command")
  /\ kept' = [kept EXCEPT ![e] = @ + 1]
  /\ Return(t)
  /\ UNCHANGED <<driver, wrapper, refs, registered, bare>>

Release(t, e) ==
  /\ At(t, "idle") /\ kept[e] > 0
  /\ kept' = [kept EXCEPT ![e] = @ - 1]
  /\ Unref(e)
  /\ IF refs[e] = 1 THEN Call(t, "last", e) ELSE Return(t)
  /\ UNCHANGED <<driver, wrapper, bare, heard>>

(* After the lock: the Release command is sent ...                         *)
EmitRelease(t) ==
  LET e == thread[t].effect IN
  /\ At(t, "last") \/ At(t, "lastCallback")
  /\ Hear(e, "Release")
  /\ Call(t, IF At(t, "last") THEN "delete" ELSE "deleteCallback", e)
  /\ UNCHANGED <<driver, wrapper, refs, registered, kept, bare>>

RealKept(e) == UNCHANGED driver

RealReleased(e) == driver' = [driver EXCEPT ![e] = @ - 1]

(* ... and the wrapper is deleted with its reference to the real effect.   *)
Delete(t) ==
  LET e == thread[t].effect IN
  /\ At(t, "delete") \/ At(t, "deleteCallback")
  /\ wrapper' = [wrapper EXCEPT ![e] = "deleted"]
  /\ RealReleased(e)
  /\ IF At(t, "delete") THEN Return(t) ELSE Call(t, "lent", e)
  /\ UNCHANGED <<refs, registered, kept, bare, heard>>

(* An effect that came without a wrapper is kept and released by the game. *)
KeepBare(t) ==
  LET e == thread[t].effect IN
  /\ At(t, "bareCallback") /\ bare[e] < MaxRefs
  /\ bare' = [bare EXCEPT ![e] = @ + 1]
  /\ driver' = [driver EXCEPT ![e] = @ + 1]
  /\ UNCHANGED <<wrapper, refs, registered, kept, thread, heard>>

ReleaseBare(t, e) ==
  /\ At(t, "idle") /\ bare[e] > 0
  /\ bare' = [bare EXCEPT ![e] = @ - 1]
  /\ driver' = [driver EXCEPT ![e] = @ - 1]
  /\ UNCHANGED <<wrapper, refs, registered, kept, thread, heard>>

Next ==
  \E t \in Threads :
    \/ Register(t) \/ Announce(t) \/ NotWrapped(t)
    \/ FindAndAddRef(t) \/ CallbackReturns(t) \/ DriverTakesBack(t)
    \/ EmitCommand(t) \/ EmitRelease(t) \/ Delete(t) \/ KeepBare(t)
    \/ \E e \in Effects :
         \/ DriverCreates(t, e) \/ DriverLends(t, e)
         \/ AddRef(t, e) \/ QueryBare(t, e) \/ Command(t, e)
         \/ Release(t, e) \/ ReleaseBare(t, e)

Spec == Init /\ [][Next]_vars

-----------------------------------------------------------------------------

Labels ==
  {"register", "announce", "find", "callback", "bareCallback", "lastCallback",
   "deleteCallback", "lent", "emit", "last", "delete"}

In(labels, e) == {t \in Threads : thread[t].at \in labels /\ thread[t].effect = e}

(* Every variable has its type; no reference count goes below zero.        *)
TypeOK ==
  /\ driver \in [Effects -> Nat]
  /\ wrapper \in [Effects -> {"none", "live", "deleted"}]
  /\ refs \in [Effects -> Nat]
  /\ registered \in [Effects -> BOOLEAN]
  /\ kept \in [Effects -> Nat]
  /\ bare \in [Effects -> Nat]
  /\ thread \in [Threads -> {Idle} \union [at : Labels, effect : Effects]]
  /\ heard \in [Effects -> SUBSET {"EffectCreated", "Command", "Release"}]

(* A wrapper counts exactly the references of the game and of the calls    *)
(* under way; only one with a reference left can be found, whatever        *)
(* enumeration races its last Release, and nobody uses a deleted one.      *)
WrapperRefsExact ==
  \A e \in Effects :
    /\ refs[e] = kept[e] + Cardinality(In({"announce", "callback", "emit"}, e))
    /\ registered[e] <=> refs[e] > 0
    /\ refs[e] > 0 => wrapper[e] = "live"

(* The driver's effect has exactly the references of its creator, of its   *)
(* wrapper until that is deleted, of the enumerations that it was lent to  *)
(* and of the game: it is neither leaked nor freed under a wrapper.        *)
DriverRefsExact ==
  \A e \in Effects :
    driver[e] = bare[e]
                + (IF wrapper[e] = "live" THEN 1 ELSE 0)
                + Cardinality(In({"register"}, e))
                + Cardinality(In({"find", "callback", "bareCallback", "lastCallback",
                                  "deleteCallback", "lent"}, e))

(* Release is the last that is heard of an effect, is heard once and after *)
(* EffectCreated: when it has been sent nobody can call the wrapper, and   *)
(* no call is under way that would still speak of it, although commands    *)
(* and enumerations of other threads raced the last Release.               *)
ReleaseIsLast ==
  \A e \in Effects :
    "Release" \in heard[e] =>
      /\ "EffectCreated" \in heard[e]
      /\ kept[e] = 0
      /\ In({"register", "announce", "callback", "emit", "last", "lastCallback"}, e) = {}
=============================================================================
