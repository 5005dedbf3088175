--------------------------- MODULE DeviceWrappers ----------------------------
(***************************************************************************)
(* Who owns a DirectInput device: WrapperDirectInput8 and WrapperDevice8   *)
(* of src/src/wrapper_dinput8.cpp and src/src/wrapper_device8.cpp.         *)
(*                                                                         *)
(* A device of the driver reaches the proxy from CreateDevice or lent by   *)
(* EnumDevicesBySemantics.  The proxy builds a candidate control block (an *)
(* A and a W wrapper with one reference count) without any lock, then      *)
(* looks under registry_lock for a block of the same device: it publishes  *)
(* the candidate, or drops it and returns the existing wrapper, or returns *)
(* the bare device.  The last Release takes a block out of the registry    *)
(* under the lock and deletes it after the lock.                           *)
(*                                                                         *)
(* A critical section is one step, and so is a call of the driver; steps   *)
(* of different threads interleave.  Metadata (identifiers, names) and the *)
(* telemetry of devices are left out; so is a device whose IUnknown query  *)
(* fails, which COM forbids.                                               *)
(***************************************************************************)
EXTENDS Integers, FiniteSets

CONSTANTS
  Threads,   \* threads of the game
  Devices,   \* objects of the driver; a freed address may be used again
  Blocks,    \* control blocks WrapperDevice8State that can be allocated
  NoBlock,   \* a null pointer
  MaxRefs    \* bound: references the game keeps to one object

Forms == {"A", "W"}   \* IDirectInputDevice8A and IDirectInputDevice8W

ASSUME WrapperConstants ==
  /\ IsFiniteSet(Threads) /\ IsFiniteSet(Blocks)
  /\ NoBlock \notin Blocks /\ MaxRefs \in Nat

VARIABLES
  real,     \* real[d]: references to d held by the proxy and by the game
  block,    \* block[b]: the control block
  kept,     \* kept[b]: references the game owns to the wrappers of b
  bare,     \* bare[d]: references the game owns to d itself
  thread    \* thread[t]: the call that t is in

vars == <<real, block, kept, bare, thread>>

Idle == [at |-> "idle"]

Init ==
  /\ real = [d \in Devices |-> 0]
  /\ block = [b \in Blocks |-> [state |-> "unused"]]
  /\ kept = [b \in Blocks |-> 0]
  /\ bare = [d \in Devices |-> 0]
  /\ thread = [t \in Threads |-> Idle]

Live(b) == block[b].state = "live"

(* WrapperDevice8State::registered.                                        *)
Registered(b) == Live(b) /\ block[b].registered

At(t, label) == thread[t].at = label

Goto(t, label) == thread' = [thread EXCEPT ![t].at = label]

(* The references to its device that a block releases when it is deleted.  *)
RealRefs(b) == Cardinality(block[b].forms)

NotDetached(b) == RealRefs(b)

(* Those of a block from which discard_unpublished has detached one.       *)
Detached(b) == RealRefs(b) - 1

NoTwins(d) == {}

(* The blocks that publish_or_add_ref finds for a device.                  *)
Twins(d) == {b \in Blocks : Registered(b) /\ block[b].device = d}

(* The last reference takes a block out of the registry.                   *)
StaysRegistered(b) == block[b].registered /\ block[b].refs # 1

(***************************************************************************)
(* The call comes back without a wrapper.  CreateDevice gives the driver's *)
(* object away; the enumeration drops its own reference and passes the     *)
(* object on.                                                              *)
(***************************************************************************)
FailOpen(t, surplus) ==
  LET d == thread[t].device IN
  IF thread[t].lent
    THEN /\ real' = [real EXCEPT ![d] = @ - surplus - 1]
         /\ thread' = [thread EXCEPT ![t].at = "callback", ![t].wrapped = NoBlock]
         /\ UNCHANGED bare
    ELSE /\ real' = [real EXCEPT ![d] = @ - surplus]
         /\ bare' = [bare EXCEPT ![d] = @ + 1]
         /\ thread' = [thread EXCEPT ![t] = Idle]

(* The call comes back with a reference to the wrapper of block b.         *)
Deliver(t, b) ==
  IF thread[t].lent
    THEN /\ thread' = [thread EXCEPT ![t].at = "callback", ![t].wrapped = b]
         /\ UNCHANGED kept
    ELSE /\ kept' = [kept EXCEPT ![b] = @ + 1]
         /\ thread' = [thread EXCEPT ![t] = Idle]

(***************************************************************************)
(* The driver returns a device, with a reference from CreateDevice; one    *)
(* that it lends to the enumeration is AddRef'ed.  A driver may return an  *)
(* object that it has returned before.                                     *)
(***************************************************************************)
Obtain(t, d, form, lent) ==
  /\ At(t, "idle")
  /\ bare[d] < MaxRefs
  /\ \A b \in Blocks : Live(b) /\ block[b].device = d => kept[b] < MaxRefs
  /\ real' = [real EXCEPT ![d] = @ + 1]
  /\ thread' = [thread EXCEPT ![t] =
       [at |-> "construct", device |-> d, form |-> form, lent |-> lent,
        candidate |-> NoBlock, wrapped |-> NoBlock]]
  /\ UNCHANGED <<block, kept, bare>>

(* The constructor owns the reference it was given and, when the driver    *)
(* has the other form, one more.                                           *)
Construct(t) ==
  /\ At(t, "construct")
  /\ \E b \in Blocks, forms \in {Forms, {thread[t].form}} :
       /\ block[b].state = "unused"
       /\ block' = [block EXCEPT ![b] =
            [state |-> "live", device |-> thread[t].device, forms |-> forms,
             refs |-> 1, registered |-> FALSE]]
       /\ real' = [real EXCEPT ![thread[t].device] = @ + Cardinality(forms) - 1]
       /\ thread' = [thread EXCEPT ![t].at = "publish", ![t].candidate = b]
  /\ UNCHANGED <<kept, bare>>

(* The block or one of its wrappers could not be allocated; what had been  *)
(* acquired is released by discard_unpublished.                            *)
ConstructFails(t) ==
  /\ At(t, "construct")
  /\ FailOpen(t, 0)
  /\ UNCHANGED <<block, kept>>

(***************************************************************************)
(* publish_or_add_ref, under registry_lock.                                *)
(***************************************************************************)
Publish(t) ==
  LET d == thread[t].device IN
  /\ At(t, "publish")
  /\ \/ /\ Twins(d) = {}
        /\ block' = [block EXCEPT ![thread[t].candidate].registered = TRUE]
        /\ Deliver(t, thread[t].candidate)
     \/ \E b \in Twins(d) :
          /\ UNCHANGED kept
          /\ IF thread[t].form \in block[b].forms
               THEN /\ block' = [block EXCEPT ![b].refs = @ + 1]
                    /\ thread' = [thread EXCEPT ![t].at = "drop", ![t].wrapped = b]
               ELSE /\ Goto(t, "discard")
                    /\ UNCHANGED block
  /\ UNCHANGED <<real, bare>>

(* An existing wrapper is returned; the candidate dies with its references.*)
DropCandidate(t) ==
  LET b == thread[t].candidate IN
  /\ At(t, "drop")
  /\ block' = [block EXCEPT ![b] = [state |-> "deleted"]]
  /\ real' = [real EXCEPT ![thread[t].device] = @ - RealRefs(b)]
  /\ Deliver(t, thread[t].wrapped)
  /\ UNCHANGED bare

(* discard_unpublished: the reference that came in stays with the caller.  *)
DiscardCandidate(t) ==
  LET b == thread[t].candidate IN
  /\ At(t, "discard")
  /\ block' = [block EXCEPT ![b] = [state |-> "deleted"]]
  /\ FailOpen(t, Detached(b))
  /\ UNCHANGED kept

(***************************************************************************)
(* AddRef, or QueryInterface for a form that the block has, on a wrapper   *)
(* that the game owns or that is passed to its callback.                   *)
(***************************************************************************)
AddRef(t, b) ==
  /\ \/ At(t, "idle") /\ kept[b] > 0
     \/ At(t, "callback") /\ thread[t].wrapped = b
  /\ kept[b] < MaxRefs
  /\ block' = [block EXCEPT ![b].refs = @ + 1]
  /\ kept' = [kept EXCEPT ![b] = @ + 1]
  /\ UNCHANGED <<real, bare, thread>>

(* QueryInterface for anything else is answered by the driver, with an     *)
(* interface of its own object.                                            *)
QueryBare(t, b) ==
  LET d == block[b].device IN
  /\ At(t, "idle") /\ kept[b] > 0
  /\ bare[d] < MaxRefs
  /\ bare' = [bare EXCEPT ![d] = @ + 1]
  /\ real' = [real EXCEPT ![d] = @ + 1]
  /\ UNCHANGED <<block, kept, thread>>

(* WrapperDevice8State::release, under registry_lock.                      *)
Unref(t, b) ==
  /\ block' = [block EXCEPT ![b].refs = @ - 1,
                            ![b].registered = StaysRegistered(b)]
  /\ thread' = [thread EXCEPT ![t] =
       IF block[b].refs = 1 THEN [at |-> "delete", block |-> b] ELSE Idle]

Release(t, b) ==
  /\ At(t, "idle")
  /\ kept[b] > 0
  /\ kept' = [kept EXCEPT ![b] = @ - 1]
  /\ Unref(t, b)
  /\ UNCHANGED <<real, bare>>

(* The callback of the game returns and the enumeration drops what it had  *)
(* passed, if that was a wrapper.                                          *)
CallbackReturns(t) ==
  /\ At(t, "callback")
  /\ IF thread[t].wrapped # NoBlock
       THEN Unref(t, thread[t].wrapped)
       ELSE thread' = [thread EXCEPT ![t] = Idle] /\ UNCHANGED block
  /\ UNCHANGED <<real, kept, bare>>

(* delete this, after the lock.                                            *)
Delete(t) ==
  LET b == thread[t].block IN
  /\ At(t, "delete")
  /\ block' = [block EXCEPT ![b] = [state |-> "deleted"]]
  /\ real' = [real EXCEPT ![block[b].device] = @ - RealRefs(b)]
  /\ thread' = [thread EXCEPT ![t] = Idle]
  /\ UNCHANGED <<kept, bare>>

(* The game keeps, and releases, a device that came without a wrapper.     *)
KeepBare(t) ==
  /\ At(t, "callback") /\ thread[t].wrapped = NoBlock
  /\ bare[thread[t].device] < MaxRefs
  /\ bare' = [bare EXCEPT ![thread[t].device] = @ + 1]
  /\ real' = [real EXCEPT ![thread[t].device] = @ + 1]
  /\ UNCHANGED <<block, kept, thread>>

ReleaseBare(t, d) ==
  /\ At(t, "idle")
  /\ bare[d] > 0
  /\ bare' = [bare EXCEPT ![d] = @ - 1]
  /\ real' = [real EXCEPT ![d] = @ - 1]
  /\ UNCHANGED <<block, kept, thread>>

Next ==
  \E t \in Threads :
    \/ \E d \in Devices, form \in Forms, lent \in BOOLEAN : Obtain(t, d, form, lent)
    \/ Construct(t) \/ ConstructFails(t) \/ Publish(t)
    \/ DropCandidate(t) \/ DiscardCandidate(t) \/ Delete(t)
    \/ \E b \in Blocks : AddRef(t, b) \/ QueryBare(t, b) \/ Release(t, b)
    \/ CallbackReturns(t) \/ KeepBare(t)
    \/ \E d \in Devices : ReleaseBare(t, d)

Spec == Init /\ [][Next]_vars

-----------------------------------------------------------------------------

Owned(d, b) == Live(b) /\ block[b].device = d

(* Threads that hold a reference to the wrappers of b: the candidate they  *)
(* have built, or the wrapper that they return or pass to a callback.      *)
Holders(b) ==
  {t \in Threads :
     \/ thread[t].at \in {"publish", "drop", "discard"} /\ thread[t].candidate = b
     \/ thread[t].at \in {"drop", "callback"} /\ thread[t].wrapped = b}

(* Calls whose reference from the driver is not yet in a block.            *)
Constructing(d) == {t \in Threads : At(t, "construct") /\ thread[t].device = d}

(* The references to d that live blocks own: one for each of their forms.  *)
Shares(d) == {p \in Blocks \X Forms : Owned(d, p[1]) /\ p[2] \in block[p[1]].forms}

(* What the game can reach: a wrapper it owns or is being passed.          *)
Reaches(b) ==
  \/ kept[b] > 0
  \/ \E t \in Threads : At(t, "callback") /\ thread[t].wrapped = b

BlockType ==
  [state : {"unused", "deleted"}]
  \union [state : {"live"}, device : Devices, forms : SUBSET Forms, refs : Nat,
          registered : BOOLEAN]

CallType ==
  {Idle} \union [at : {"delete"}, block : Blocks]
  \union [at : {"construct", "publish", "drop", "discard", "callback"}, device : Devices,
          form : Forms, lent : BOOLEAN, candidate : Blocks \union {NoBlock},
          wrapped : Blocks \union {NoBlock}]

(* Every variable has its type; no reference count of the proxy or of the  *)
(* driver goes below zero.                                                 *)
TypeOK ==
  /\ real \in [Devices -> Nat]
  /\ block \in [Blocks -> BlockType]
  /\ kept \in [Blocks -> Nat]
  /\ bare \in [Devices -> Nat]
  /\ thread \in [Threads -> CallType]

(* A block counts exactly the references to it that exist, in the game and *)
(* in calls under way, until it is deleted; nobody refers to a deleted     *)
(* block, and one that can still be found has a reference left.            *)
RefsAreOwned ==
  \A b \in Blocks :
    /\ Live(b) => block[b].refs = kept[b] + Cardinality(Holders(b))
    /\ ~Live(b) => kept[b] = 0 /\ Holders(b) = {}
    /\ Registered(b) => block[b].refs > 0

(* However many threads are handed the same device at once, the game never *)
(* sees two wrappers for it (COM: one object, one identity).               *)
OneIdentity ==
  \A b, c \in Blocks :
    Reaches(b) /\ Reaches(c) /\ block[b].device = block[c].device => b = c

(* Each device of the driver has exactly the references that live blocks,  *)
(* the game and calls under way own: none is leaked or released twice on   *)
(* any path, a wrapped device stays alive, and once the game has released  *)
(* what it got the driver's object is free.                                *)
DeviceRefsBalanced ==
  \A d \in Devices :
    real[d] = bare[d] + Cardinality(Constructing(d)) + Cardinality(Shares(d))
=============================================================================
