--------------------------- MODULE WrappersProofs ----------------------------
(* Proofs about DeviceWrappers, EffectWrappers and PlaybackGate, for any   *)
(* finite set of threads of the game and any number of objects: the counts *)
(* of references are exact, a device has one wrapper, an effect is heard   *)
(* of until its Release and not after it, and a lost device is announced   *)
(* once.  A count is the cardinality of the set of those who hold a        *)
(* reference, so each proof follows how one call of one thread changes the *)
(* sets it is in.                                                          *)
EXTENDS MCWrappers, FiniteSetTheorems, TLAPS

(***************************************************************************)
(* Counting.                                                               *)
(***************************************************************************)

Bit(p) == IF p THEN 1 ELSE 0

(* Two sets that differ in at most x differ by at most one in size.        *)
LEMMA Tally ==
  ASSUME NEW S, NEW T, NEW x, IsFiniteSet(S), S \ {x} = T \ {x}
  PROVE  /\ IsFiniteSet(T)
         /\ Cardinality(S) \in Nat /\ Cardinality(T) \in Nat
         /\ Cardinality(T) - Bit(x \in T) = Cardinality(S) - Bit(x \in S)
<1>1. IsFiniteSet(S \ {x}) /\ Cardinality(S \ {x}) = Cardinality(S) - Bit(x \in S)
  BY FS_RemoveElement, FS_CardinalityType DEF Bit
<1>2. IsFiniteSet(T)
  <2>1. IsFiniteSet((T \ {x}) \union {x}) BY <1>1, FS_AddElement
  <2>2. T \subseteq (T \ {x}) \union {x} OBVIOUS
  <2>3. QED BY <2>1, <2>2, FS_Subset
<1>3. Cardinality(T \ {x}) = Cardinality(T) - Bit(x \in T)
  BY <1>2, FS_RemoveElement, FS_CardinalityType DEF Bit
<1>4. QED BY <1>1, <1>2, <1>3, FS_CardinalityType

(* The sizes of disjoint sets add up.                                      *)
LEMMA DisjointTally ==
  ASSUME NEW S, NEW T, IsFiniteSet(S), IsFiniteSet(T), S \intersect T = {}
  PROVE  Cardinality(S \union T) = Cardinality(S) + Cardinality(T)
<1>1. Cardinality(S \intersect T) = 0 BY FS_EmptySet, Zenon
<1>2. Cardinality(S) \in Nat /\ Cardinality(T) \in Nat BY FS_CardinalityType
<1>3. Cardinality(S \union T) = Cardinality(S) + Cardinality(T) - Cardinality(S \intersect T)
  BY FS_Union
<1>4. QED BY <1>1, <1>2, <1>3

(* A column of pairs has the size of its second components.                *)
LEMMA ColumnTally ==
  ASSUME NEW x, NEW T, IsFiniteSet(T)
  PROVE  IsFiniteSet({x} \X T) /\ Cardinality({x} \X T) = Cardinality(T)
<1>1. IsFiniteSet({x}) /\ Cardinality({x}) = 1 BY FS_Singleton
<1>2. Cardinality(T) \in Nat BY FS_CardinalityType
<1>3. IsFiniteSet({x} \X T) /\ Cardinality({x} \X T) = 1 * Cardinality(T)
  BY <1>1, FS_Product
<1>4. QED BY <1>1, <1>2, <1>3

(***************************************************************************)
(* Devices.                                                                *)
(***************************************************************************)

(* The call has a candidate that is not, or not yet, published.            *)
Building(t) == thread[t].at \in {"publish", "drop", "discard"}

Holds(t, b) ==
  \/ thread[t].at \in {"publish", "drop", "discard"} /\ thread[t].candidate = b
  \/ thread[t].at \in {"drop", "callback"} /\ thread[t].wrapped = b

(* What a call under way knows.  A candidate is a live block that only its *)
(* builder knows; the wrapper that is about to be returned, or is passed   *)
(* to a callback, is in the registry; a block that is about to be deleted  *)
(* has no reference left, and one call deletes it.                         *)
CandidateIsOwn(t) ==
  Building(t) =>
    /\ thread[t].candidate \in Blocks
    /\ Live(thread[t].candidate) /\ ~block[thread[t].candidate].registered
    /\ block[thread[t].candidate].device = thread[t].device
    /\ \A u \in Threads : Building(u) /\ thread[u].candidate = thread[t].candidate => u = t

WrappedIsFound(t) ==
  thread[t].at \in {"drop", "callback"} /\ thread[t].wrapped \in Blocks
    => Registered(thread[t].wrapped)

WrapsWhenDropping(t) == At(t, "drop") => thread[t].wrapped \in Blocks

DeletesAlone(t) ==
  At(t, "delete") =>
    /\ Live(thread[t].block)
    /\ block[thread[t].block].refs = 0 /\ ~block[thread[t].block].registered
    /\ \A u \in Threads : At(u, "delete") /\ thread[u].block = thread[t].block => u = t

CallsKnow ==
  \A t \in Threads :
    CandidateIsOwn(t) /\ WrappedIsFound(t) /\ WrapsWhenDropping(t) /\ DeletesAlone(t)

(* The game owns references to wrappers in the registry only, and the      *)
(* registry has at most one block of a device.                             *)
KeptAreFound == \A b \in Blocks : kept[b] > 0 => Registered(b)

OneWrapper ==
  \A b, c \in Blocks :
    Registered(b) /\ Registered(c) /\ block[b].device = block[c].device => b = c

BlockRefs(b) ==
  /\ Live(b) => block[b].refs = kept[b] + Cardinality(Holders(b))
  /\ ~Live(b) => kept[b] = 0 /\ Holders(b) = {}
  /\ Registered(b) => block[b].refs > 0

(* The inductive invariant: the two counts, and what they rest on.         *)
DevicesInv ==
  TypeOK /\ RefsAreOwned /\ DeviceRefsBalanced /\ CallsKnow /\ KeptAreFound /\ OneWrapper

(* How the holders of a block change when one call takes a step.           *)
LEMMA HoldersTally ==
  ASSUME NEW t \in Threads, NEW b, \A u \in Threads \ {t} : thread'[u] = thread[u]
  PROVE  /\ Cardinality(Holders(b)) \in Nat /\ Cardinality(Holders(b)') \in Nat
         /\ Cardinality(Holders(b)') - Bit(Holds(t, b)') = Cardinality(Holders(b)) - Bit(Holds(t, b))
         /\ Cardinality(Holders(b)') = 0 <=> Holders(b)' = {}
         /\ Cardinality(Holders(b)) = 0 <=> Holders(b) = {}
<1>1. IsFiniteSet(Holders(b)) /\ IsFiniteSet(Holders(b)')
  BY WrapperConstants, FS_Subset DEF Holders
<1>2. Holders(b) \ {t} = Holders(b)' \ {t}
  BY DEF Holders
<1>3. (t \in Holders(b) <=> Holds(t, b)) /\ (t \in Holders(b)' <=> Holds(t, b)')
  BY DEF Holders, Holds
<1>4. Bit(t \in Holders(b)) = Bit(Holds(t, b)) /\ Bit(t \in Holders(b)') = Bit(Holds(t, b)')
  BY <1>3 DEF Bit
<1>5. QED BY <1>1, <1>2, <1>4, Tally, FS_EmptySet

(* Nobody else changes: the calls whose reference is not yet in a block.   *)
LEMMA ConstructingTally ==
  ASSUME NEW t \in Threads, NEW d, \A u \in Threads \ {t} : thread'[u] = thread[u]
  PROVE  /\ Cardinality(Constructing(d)) \in Nat /\ Cardinality(Constructing(d)') \in Nat
         /\ Cardinality(Constructing(d)') - Bit(At(t, "construct")' /\ thread'[t].device = d)
              = Cardinality(Constructing(d)) - Bit(At(t, "construct") /\ thread[t].device = d)
<1>1. IsFiniteSet(Constructing(d))
  BY WrapperConstants, FS_Subset DEF Constructing
<1>2. Constructing(d) \ {t} = Constructing(d)' \ {t}
  BY DEF Constructing, At
<1>3. /\ t \in Constructing(d) <=> At(t, "construct") /\ thread[t].device = d
      /\ t \in Constructing(d)' <=> At(t, "construct")' /\ thread'[t].device = d
  BY DEF Constructing
<1>4. /\ Bit(t \in Constructing(d)) = Bit(At(t, "construct") /\ thread[t].device = d)
      /\ Bit(t \in Constructing(d)') = Bit(At(t, "construct")' /\ thread'[t].device = d)
  BY <1>3 DEF Bit
<1>5. QED BY <1>1, <1>2, <1>4, Tally

(* The references to device d that a block in this state owns.             *)
FormsOf(state, d) == IF state.state = "live" /\ state.device = d THEN state.forms ELSE {}

SharesOf(state, d) == Cardinality(FormsOf(state, d))

LEMMA FormsTally ==
  /\ IsFiniteSet(Forms) /\ Cardinality(Forms) = 2
  /\ \A d : \A state \in BlockType : IsFiniteSet(FormsOf(state, d)) /\ SharesOf(state, d) \in Nat
<1>1. IsFiniteSet({"A"}) /\ Cardinality({"A"}) = 1 BY FS_Singleton
<1>2. IsFiniteSet({"A"} \union {"W"}) /\ Cardinality({"A"} \union {"W"}) = 1 + 1
  <2>1. "W" \notin {"A"} OBVIOUS
  <2>2. QED BY <1>1, <2>1, FS_AddElement
<1>3. Forms = {"A"} \union {"W"} BY DEF Forms
<1>4. ASSUME NEW state \in BlockType, NEW d
      PROVE  IsFiniteSet(FormsOf(state, d)) /\ SharesOf(state, d) \in Nat
  <2>1. FormsOf(state, d) \subseteq Forms BY DEF BlockType, FormsOf
  <2>2. IsFiniteSet(Forms) BY <1>2, <1>3
  <2>3. IsFiniteSet(FormsOf(state, d)) BY <2>1, <2>2, FS_Subset
  <2>4. QED BY <2>3, FS_CardinalityType DEF SharesOf
<1>5. QED BY <1>2, <1>3, <1>4

LEMMA OwnShares ==
  /\ \A e : SharesOf([state |-> "deleted"], e) = 0
  /\ \A e : \A b \in Blocks : Live(b) =>
       SharesOf(block[b], e) = IF block[b].device = e THEN RealRefs(b) ELSE 0
<1>1. \A e : FormsOf([state |-> "deleted"], e) = {}
  BY DEF FormsOf
<1>2. \A e : \A b \in Blocks : Live(b) =>
        FormsOf(block[b], e) = IF block[b].device = e THEN block[b].forms ELSE {}
  BY DEF FormsOf, Live
<1>3. Cardinality({}) = 0 BY FS_EmptySet
<1>4. QED BY <1>1, <1>2, <1>3 DEF SharesOf, RealRefs

(* How the references that blocks own change when one block does.          *)
LEMMA SharesTally ==
  ASSUME NEW d, NEW b \in Blocks,
         block \in [Blocks -> BlockType], block' \in [Blocks -> BlockType],
         \A c \in Blocks \ {b} : block'[c] = block[c]
  PROVE  /\ Cardinality(Shares(d)) \in Nat /\ Cardinality(Shares(d)') \in Nat
         /\ SharesOf(block[b], d) \in Nat /\ SharesOf(block'[b], d) \in Nat
         /\ Cardinality(Shares(d)') - SharesOf(block'[b], d)
              = Cardinality(Shares(d)) - SharesOf(block[b], d)
<1> DEFINE In(f) == {p \in Blocks \X Forms : p[2] \in FormsOf(f[p[1]], d)}
           Rest(f) == {p \in In(f) : p[1] # b}
           Part(f) == {p \in In(f) : p[1] = b}
<1>1. Shares(d) = In(block) /\ Shares(d)' = In(block')
  BY DEF Shares, FormsOf, Owned, Live
<1>2. Rest(block') = Rest(block)
  OBVIOUS
<1>3. ASSUME NEW f \in [Blocks -> BlockType]
      PROVE  /\ Cardinality(Rest(f)) \in Nat /\ SharesOf(f[b], d) \in Nat
             /\ Cardinality(In(f)) = Cardinality(Rest(f)) + SharesOf(f[b], d)
  <2>1. IsFiniteSet(Blocks \X Forms) BY FormsTally, WrapperConstants, FS_Product
  <2>2. IsFiniteSet(Rest(f)) /\ IsFiniteSet(Part(f))
    <3>1. Rest(f) \subseteq Blocks \X Forms /\ Part(f) \subseteq Blocks \X Forms OBVIOUS
    <3>2. QED BY <2>1, <3>1, FS_Subset
  <2>3. Cardinality(Rest(f)) \in Nat BY <2>2, FS_CardinalityType
  <2>4. f[b] \in BlockType OBVIOUS
  <2>5. Part(f) = {b} \X FormsOf(f[b], d)
    <3>1. FormsOf(f[b], d) \subseteq Forms BY <2>4 DEF BlockType, FormsOf
    <3>2. QED BY <3>1
  <2>6. Cardinality(Part(f)) = SharesOf(f[b], d) /\ SharesOf(f[b], d) \in Nat
    <3>1. IsFiniteSet(FormsOf(f[b], d)) /\ SharesOf(f[b], d) \in Nat BY <2>4, FormsTally
    <3>2. Cardinality({b} \X FormsOf(f[b], d)) = SharesOf(f[b], d)
      BY <3>1, ColumnTally DEF SharesOf
    <3> HIDE DEF Part
    <3>3. QED BY <3>1, <3>2, <2>5
  <2>7. In(f) = Rest(f) \union Part(f) /\ Rest(f) \intersect Part(f) = {}
    OBVIOUS
  <2> HIDE DEF In, Rest, Part
  <2>8. Cardinality(Rest(f) \union Part(f)) = Cardinality(Rest(f)) + Cardinality(Part(f))
    BY <2>2, <2>7, DisjointTally
  <2>9. QED BY <2>3, <2>6, <2>7, <2>8
<1> HIDE DEF In, Rest, Part
<1>4. /\ Cardinality(Rest(block)) \in Nat /\ SharesOf(block[b], d) \in Nat
      /\ Cardinality(In(block)) = Cardinality(Rest(block)) + SharesOf(block[b], d)
  BY <1>3
<1>5. /\ SharesOf(block'[b], d) \in Nat
      /\ Cardinality(In(block')) = Cardinality(Rest(block')) + SharesOf(block'[b], d)
  BY <1>3
<1>6. QED BY <1>1, <1>2, <1>4, <1>5

LEMMA SharesCount ==
  ASSUME NEW d, block \in [Blocks -> BlockType]
  PROVE  Cardinality(Shares(d)) \in Nat
<1>1. IsFiniteSet(Blocks \X Forms) BY FormsTally, WrapperConstants, FS_Product
<1>2. Shares(d) \subseteq Blocks \X Forms BY DEF Shares
<1>3. QED BY <1>1, <1>2, FS_Subset, FS_CardinalityType

(* The shape of a call under way.                                          *)
Busy == {"construct", "publish", "drop", "discard", "callback"}

OpenCall ==
  [at : Busy, device : Devices, form : Forms, lent : BOOLEAN,
   candidate : Blocks \union {NoBlock}, wrapped : Blocks \union {NoBlock}]

LEMMA CallShapes ==
  ASSUME TypeOK, NEW t \in Threads
  PROVE  /\ thread[t].at = "idle" => thread[t] = Idle
         /\ thread[t].at = "delete" => thread[t].block \in Blocks
         /\ thread[t].at \in Busy => thread[t] \in OpenCall
         /\ thread[t].at \in Busy \union {"idle", "delete"}
BY DEF TypeOK, CallType, Idle, Busy, OpenCall

(* The other calls keep what they know when t changes block b, as long as  *)
(* b is not theirs and t takes nothing of theirs.                          *)
LEMMA OthersKnow ==
  ASSUME TypeOK, CallsKnow, NEW t \in Threads, NEW b \in Blocks,
         \A u \in Threads \ {t} : thread'[u] = thread[u],
         \A c \in Blocks \ {b} : block'[c] = block[c],
         \A u \in Threads \ {t} :
           /\ Building(u) => thread[u].candidate # b
           /\ Building(u) /\ Building(t)' => thread'[t].candidate # thread[u].candidate
           /\ thread[u].at \in {"drop", "callback"} /\ thread[u].wrapped = b => Registered(b)'
           /\ At(u, "delete") => thread[u].block # b
           /\ At(u, "delete") /\ At(t, "delete")' => thread'[t].block # thread[u].block
  PROVE  \A u \in Threads \ {t} :
           (CandidateIsOwn(u) /\ WrappedIsFound(u) /\ WrapsWhenDropping(u) /\ DeletesAlone(u))'
<1> SUFFICES ASSUME NEW u \in Threads \ {t}
             PROVE  (CandidateIsOwn(u) /\ WrappedIsFound(u) /\ WrapsWhenDropping(u) /\ DeletesAlone(u))'
  OBVIOUS
<1>1. CandidateIsOwn(u) /\ WrappedIsFound(u) /\ WrapsWhenDropping(u) /\ DeletesAlone(u)
  BY DEF CallsKnow
<1>2. CandidateIsOwn(u)'
  BY <1>1 DEF CandidateIsOwn, Building, Live
<1>3. WrappedIsFound(u)' /\ WrapsWhenDropping(u)'
  BY <1>1 DEF WrappedIsFound, WrapsWhenDropping, At, Live, Registered
<1>4. DeletesAlone(u)'
  <2>1. At(u, "delete") => thread[u].block \in Blocks \ {b}
    BY CallShapes DEF At
  <2>2. QED BY <1>1, <2>1 DEF DeletesAlone, At, Live
<1>5. QED BY <1>2, <1>3, <1>4

(* A block that is left alone keeps its count.                             *)
LEMMA OthersCount ==
  ASSUME RefsAreOwned, NEW b \in Blocks, BlockRefs(b)',
         \A c \in Blocks \ {b} :
           block'[c] = block[c] /\ kept'[c] = kept[c] /\ Holders(c)' = Holders(c)
  PROVE  RefsAreOwned'
<1> SUFFICES ASSUME NEW c \in Blocks \ {b} PROVE BlockRefs(c)'
  BY DEF RefsAreOwned, BlockRefs
<1>1. BlockRefs(c) BY DEF RefsAreOwned, BlockRefs
<1>2. QED BY <1>1 DEF BlockRefs, Live, Registered

(* A step that moves no reference to a device keeps the balance.           *)
LEMMA BalanceKept ==
  ASSUME DeviceRefsBalanced, UNCHANGED <<real, bare>>,
         NEW t \in Threads, thread[t].at # "construct", thread'[t].at # "construct",
         \A u \in Threads \ {t} : thread'[u] = thread[u],
         \A d : \A b \in Blocks : FormsOf(block'[b], d) = FormsOf(block[b], d)
  PROVE  DeviceRefsBalanced'
<1>1. \A d : Constructing(d)' = Constructing(d)
  BY DEF Constructing, At
<1>2. \A d : Shares(d)' = Shares(d)
  <2>1. \A d : Shares(d) = {p \in Blocks \X Forms : p[2] \in FormsOf(block[p[1]], d)}
    BY DEF Shares, Owned, Live, FormsOf
  <2>2. \A d : Shares(d)' = {p \in Blocks \X Forms : p[2] \in FormsOf(block'[p[1]], d)}
    BY DEF Shares, Owned, Live, FormsOf
  <2>3. QED BY <2>1, <2>2
<1>3. QED BY <1>1, <1>2 DEF DeviceRefsBalanced

(* At the start nobody holds anything.                                     *)
LEMMA DevicesInit == Init => DevicesInv
<1> SUFFICES ASSUME Init PROVE DevicesInv
  OBVIOUS
<1>1. TypeOK
  BY DEF Init, TypeOK, BlockType, CallType
<1>2. \A b \in Blocks : Holders(b) = {} /\ kept[b] = 0 /\ ~Live(b)
  BY DEF Init, Holders, Live, Idle
<1>3. \A d : Constructing(d) = {} /\ Shares(d) = {}
  BY <1>2 DEF Init, Constructing, At, Idle, Shares, Owned
<1>4. Cardinality({}) = 0
  BY FS_EmptySet
<1>5. RefsAreOwned
  BY <1>2 DEF RefsAreOwned, Registered
<1>6. DeviceRefsBalanced
  BY <1>3, <1>4 DEF DeviceRefsBalanced, Init
<1>7. CallsKnow
  BY DEF Init, Idle, CallsKnow, CandidateIsOwn, WrappedIsFound, WrapsWhenDropping, DeletesAlone,
         Building, At
<1>8. KeptAreFound /\ OneWrapper
  BY <1>2 DEF KeptAreFound, OneWrapper, Registered
<1>9. QED BY <1>1, <1>5, <1>6, <1>7, <1>8 DEF DevicesInv

(* A device comes from the driver with a reference that is not in a block. *)
LEMMA ObtainStep ==
  ASSUME DevicesInv, NEW t \in Threads, NEW d \in Devices, NEW form \in Forms,
         NEW lent \in BOOLEAN, Obtain(t, d, form, lent)
  PROVE  DevicesInv'
<1> USE DEF DevicesInv
<1>1. /\ \A u \in Threads \ {t} : thread'[u] = thread[u]
      /\ thread[t] = Idle /\ thread'[t].at = "construct" /\ thread'[t].device = d
      /\ UNCHANGED <<block, kept, bare>>
  BY CallShapes DEF Obtain, At, TypeOK
<1>2. TypeOK'
  BY DEF Obtain, TypeOK, CallType
<1>3. \A b : Holders(b)' = Holders(b)
  BY <1>1 DEF Holders, Idle
<1>4. RefsAreOwned'
  BY <1>1, <1>3 DEF RefsAreOwned, Live, Registered
<1>5. DeviceRefsBalanced'
  <2> SUFFICES ASSUME NEW e \in Devices
               PROVE  real'[e] = bare'[e] + Cardinality(Constructing(e)') + Cardinality(Shares(e)')
    BY DEF DeviceRefsBalanced
  <2>1. Shares(e)' = Shares(e) BY <1>1 DEF Shares, Owned, Live
  <2>2. Cardinality(Constructing(e)') = Cardinality(Constructing(e)) + Bit(d = e)
    BY <1>1, ConstructingTally DEF Bit, At, Idle
  <2>3. real'[e] = real[e] + Bit(d = e)
    BY DEF Obtain, TypeOK, Bit
  <2>4. /\ real[e] = bare[e] + Cardinality(Constructing(e)) + Cardinality(Shares(e))
        /\ bare[e] \in Nat /\ bare'[e] = bare[e]
    BY <1>1 DEF DeviceRefsBalanced, TypeOK
  <2>5. Cardinality(Constructing(e)) \in Nat /\ Cardinality(Shares(e)) \in Nat /\ Bit(d = e) \in Nat
    BY SharesCount, ConstructingTally, <1>1 DEF Bit, TypeOK
  <2>6. QED BY <2>1, <2>2, <2>3, <2>4, <2>5
<1>6. CallsKnow'
  BY <1>1 DEF CallsKnow, CandidateIsOwn, WrappedIsFound, WrapsWhenDropping, DeletesAlone,
              Building, At, Live, Registered, Idle
<1>7. KeptAreFound' /\ OneWrapper'
  BY <1>1 DEF KeptAreFound, OneWrapper, Live, Registered
<1>8. QED BY <1>2, <1>4, <1>5, <1>6, <1>7

(* The candidate is built: the references become those of its block.       *)
LEMMA ConstructStep ==
  ASSUME DevicesInv, NEW t \in Threads, Construct(t)
  PROVE  DevicesInv'
<1> USE DEF DevicesInv
<1> DEFINE d == thread[t].device
<1>1. PICK b \in Blocks, forms \in {Forms, {thread[t].form}} :
        /\ block[b].state = "unused"
        /\ block' = [block EXCEPT ![b] =
             [state |-> "live", device |-> d, forms |-> forms, refs |-> 1, registered |-> FALSE]]
        /\ real' = [real EXCEPT ![d] = @ + Cardinality(forms) - 1]
        /\ thread' = [thread EXCEPT ![t].at = "publish", ![t].candidate = b]
  BY DEF Construct
<1>2. thread[t] \in OpenCall /\ thread[t].at = "construct" /\ UNCHANGED <<kept, bare>>
  BY CallShapes DEF Construct, At, Busy
<1>3. /\ \A u \in Threads \ {t} : thread'[u] = thread[u]
      /\ thread'[t].at = "publish" /\ thread'[t].candidate = b
      /\ thread'[t].device = d /\ thread'[t].wrapped = thread[t].wrapped
      /\ thread'[t] \in OpenCall
  BY <1>1, <1>2 DEF TypeOK, OpenCall, Busy
<1>4. /\ forms \subseteq Forms /\ Cardinality(forms) \in {1, 2}
      /\ d \in Devices /\ thread[t].form \in Forms
  BY <1>2, FormsTally, FS_Singleton DEF OpenCall
<1>5. /\ block' \in [Blocks -> BlockType] /\ \A c \in Blocks \ {b} : block'[c] = block[c]
      /\ block'[b].state = "live" /\ block'[b].device = d /\ block'[b].forms = forms
      /\ block'[b].refs = 1 /\ block'[b].registered = FALSE
  BY <1>1, <1>4 DEF TypeOK, BlockType
<1>6. ~Live(b) /\ kept[b] = 0 /\ Holders(b) = {}
  BY <1>1 DEF Live, RefsAreOwned
<1>7. \A e \in Devices :
        real'[e] = bare'[e] + Cardinality(Constructing(e)') + Cardinality(Shares(e)')
        /\ real'[e] \in Nat
  <2> TAKE e \in Devices
  <2>1. real[e] = bare[e] + Cardinality(Constructing(e)) + Cardinality(Shares(e))
    BY DEF DeviceRefsBalanced
  <2>2. /\ Cardinality(Constructing(e)') = Cardinality(Constructing(e)) - Bit(d = e)
        /\ Cardinality(Constructing(e)) \in Nat /\ Cardinality(Constructing(e)') \in Nat
    BY <1>2, <1>3, ConstructingTally DEF Bit, At
  <2>3. SharesOf(block[b], e) = 0 /\ SharesOf(block'[b], e) = Bit(d = e) * Cardinality(forms)
    BY <1>4, <1>5, <1>6, FS_EmptySet DEF SharesOf, FormsOf, Live, Bit
  <2>4. /\ Cardinality(Shares(e)') = Cardinality(Shares(e)) + Bit(d = e) * Cardinality(forms)
        /\ Cardinality(Shares(e)) \in Nat
    BY <1>4, <1>5, <2>3, SharesTally DEF TypeOK, Bit
  <2>5. real'[e] = real[e] + Bit(d = e) * (Cardinality(forms) - 1)
    BY <1>1, <1>4 DEF TypeOK, Bit
  <2>6. real[e] \in Nat /\ bare[e] \in Nat /\ bare'[e] = bare[e]
    BY <1>2 DEF TypeOK
  <2>7. QED BY <1>4, <2>1, <2>2, <2>4, <2>5, <2>6 DEF Bit
<1>8. TypeOK'
  <2>1. real' \in [Devices -> Nat] BY <1>1, <1>7 DEF TypeOK
  <2>2. thread' \in [Threads -> CallType]
    BY <1>1, <1>3 DEF TypeOK, CallType, OpenCall, Busy
  <2>3. QED BY <1>2, <1>5, <2>1, <2>2 DEF TypeOK
<1>9. /\ Holders(b)' = {t} /\ Cardinality(Holders(b)') = 1
      /\ \A c \in Blocks \ {b} : Holders(c)' = Holders(c)
  <2>1. Holders(b)' = {t} BY <1>3, <1>6 DEF Holders
  <2>2. \A c \in Blocks \ {b} : Holders(c)' = Holders(c) BY <1>2, <1>3 DEF Holders
  <2>3. QED BY <2>1, <2>2, FS_Singleton
<1>10. RefsAreOwned'
  <2>1. BlockRefs(b)' BY <1>2, <1>5, <1>6, <1>9 DEF BlockRefs, Live, Registered
  <2>2. QED BY <1>2, <1>5, <1>9, <2>1, OthersCount
<1>11. CallsKnow'
  <2>1. \A u \in Threads \ {t} :
          (CandidateIsOwn(u) /\ WrappedIsFound(u) /\ WrapsWhenDropping(u) /\ DeletesAlone(u))'
    <3>1. \A u \in Threads \ {t} :
            /\ Building(u) => thread[u].candidate # b
            /\ thread[u].at \in {"drop", "callback"} => thread[u].wrapped # b
      BY <1>6 DEF Holders, Building
    <3>2. \A u \in Threads \ {t} : At(u, "delete") => thread[u].block # b
      BY <1>6 DEF CallsKnow, DeletesAlone
    <3>3. thread'[t].at = "publish" /\ thread'[t].candidate = b BY <1>3
    <3>4. QED BY <1>3, <1>5, <3>1, <3>2, <3>3, OthersKnow DEF At
  <2>2. CandidateIsOwn(t)'
    BY <1>3, <1>5, <1>6 DEF CandidateIsOwn, Building, Live, Holders
  <2>3. WrappedIsFound(t)' /\ WrapsWhenDropping(t)' /\ DeletesAlone(t)'
    BY <1>3 DEF WrappedIsFound, WrapsWhenDropping, DeletesAlone, At
  <2>4. QED BY <2>1, <2>2, <2>3 DEF CallsKnow
<1>12. KeptAreFound' /\ OneWrapper'
  BY <1>2, <1>5, <1>6 DEF KeptAreFound, OneWrapper, Live, Registered
<1>13. QED BY <1>7, <1>8, <1>10, <1>11, <1>12 DEF DeviceRefsBalanced

(* A block in the registry is nobody's candidate and nobody deletes it.    *)
LEMMA RegisteredIsShared ==
  ASSUME CallsKnow, NEW b, Registered(b)
  PROVE  \A u \in Threads :
           /\ Building(u) => thread[u].candidate # b
           /\ At(u, "delete") => thread[u].block # b
BY DEF CallsKnow, CandidateIsOwn, DeletesAlone, Registered

(* A candidate is held by its builder only, and not by the game.           *)
LEMMA CandidateIsHeldOnce ==
  ASSUME DevicesInv, NEW t \in Threads, Building(t)
  PROVE  LET b == thread[t].candidate IN
         /\ b \in Blocks /\ Live(b) /\ ~Registered(b) /\ block[b].device = thread[t].device
         /\ block[b].refs = 1 /\ kept[b] = 0 /\ Holders(b) = {t}
         /\ \A u \in Threads \ {t} :
              /\ Building(u) => thread[u].candidate # b
              /\ thread[u].at \in {"drop", "callback"} => thread[u].wrapped # b
         /\ \A u \in Threads : At(u, "delete") => thread[u].block # b
<1> USE DEF DevicesInv
<1> DEFINE b == thread[t].candidate
<1>1. /\ b \in Blocks /\ Live(b) /\ ~block[b].registered /\ block[b].device = thread[t].device
      /\ \A u \in Threads \ {t} : Building(u) => thread[u].candidate # b
  BY DEF CallsKnow, CandidateIsOwn
<1>2. ~Registered(b) /\ kept[b] = 0
  BY <1>1 DEF Registered, KeptAreFound, TypeOK
<1>3. \A u \in Threads : thread[u].at \in {"drop", "callback"} => thread[u].wrapped # b
  BY <1>1, <1>2 DEF CallsKnow, WrappedIsFound
<1>4. Holders(b) = {t}
  BY <1>1, <1>3 DEF Holders, Building
<1>5. Cardinality(Holders(b)) = 1 BY <1>4, FS_Singleton
<1>6. block[b].refs = 1 BY <1>1, <1>2, <1>5 DEF RefsAreOwned
<1>7. \A u \in Threads : At(u, "delete") => thread[u].block # b
  BY <1>6 DEF CallsKnow, DeletesAlone
<1>8. QED BY <1>1, <1>2, <1>3, <1>4, <1>6, <1>7

(* The three outcomes of publish_or_add_ref.                               *)
PublishNew(t, b) ==
  /\ At(t, "publish") /\ b = thread[t].candidate /\ Twins(thread[t].device) = {}
  /\ block' = [block EXCEPT ![b].registered = TRUE]
  /\ Deliver(t, b)
  /\ UNCHANGED <<real, bare>>

ShareTwin(t, b) ==
  /\ At(t, "publish") /\ b \in Twins(thread[t].device)
  /\ block' = [block EXCEPT ![b].refs = @ + 1]
  /\ thread' = [thread EXCEPT ![t].at = "drop", ![t].wrapped = b]
  /\ UNCHANGED <<kept, real, bare>>

LacksForm(t) ==
  At(t, "publish") /\ Goto(t, "discard") /\ UNCHANGED <<block, kept, real, bare>>

LEMMA PublishOutcomes ==
  ASSUME NEW t, Publish(t)
  PROVE  (\E b : PublishNew(t, b)) \/ (\E b : ShareTwin(t, b)) \/ LacksForm(t)
BY Zenon DEF Publish, PublishNew, ShareTwin, LacksForm

(* The candidate is published ...                                          *)
LEMMA PublishNewStep ==
  ASSUME DevicesInv, NEW t \in Threads, NEW b, PublishNew(t, b)
  PROVE  DevicesInv'
<1> USE DEF DevicesInv
<1>1. /\ b \in Blocks /\ Live(b) /\ ~Registered(b) /\ block[b].device = thread[t].device
      /\ block[b].refs = 1 /\ kept[b] = 0 /\ Holders(b) = {t}
      /\ \A u \in Threads \ {t} :
           /\ Building(u) => thread[u].candidate # b
           /\ thread[u].at \in {"drop", "callback"} => thread[u].wrapped # b
      /\ \A u \in Threads : At(u, "delete") => thread[u].block # b
  BY CandidateIsHeldOnce DEF PublishNew, Building, At
<1>2. thread[t] \in OpenCall /\ thread[t].at = "publish" /\ thread[t].candidate = b
  BY CallShapes DEF PublishNew, At, Busy
<1>3. /\ \A u \in Threads \ {t} : thread'[u] = thread[u]
      /\ \/ /\ thread'[t] \in OpenCall /\ thread'[t].at = "callback" /\ thread'[t].wrapped = b
            /\ kept' = kept
         \/ thread'[t] = Idle /\ kept' = [kept EXCEPT ![b] = @ + 1]
  BY <1>1, <1>2 DEF PublishNew, Deliver, TypeOK, OpenCall, Busy
<1>4. /\ block' \in [Blocks -> BlockType] /\ \A c \in Blocks \ {b} : block'[c] = block[c]
      /\ block'[b].state = "live" /\ block'[b].device = block[b].device
      /\ block'[b].forms = block[b].forms
      /\ block'[b].refs = 1 /\ block'[b].registered = TRUE
  BY <1>1 DEF PublishNew, TypeOK, BlockType, Live
<1>5. TypeOK'
  <2>1. thread' \in [Threads -> CallType]
    BY <1>3 DEF PublishNew, Deliver, TypeOK, CallType, OpenCall, Busy
  <2>2. kept' \in [Blocks -> Nat] BY <1>1, <1>3 DEF TypeOK
  <2>3. QED BY <1>4, <2>1, <2>2 DEF PublishNew, TypeOK
<1>6. /\ Registered(b)'
      /\ \A c \in Blocks \ {b} : kept'[c] = kept[c] /\ (Registered(c)' <=> Registered(c))
  BY <1>3, <1>4 DEF Registered, Live, TypeOK
<1>7. RefsAreOwned'
  <2>1. kept'[b] + Cardinality(Holders(b)') = 1
    <3>1. CASE thread'[t] = Idle /\ kept' = [kept EXCEPT ![b] = @ + 1]
      <4>1. Holders(b)' = {} BY <1>1, <1>3, <3>1 DEF Holders, Idle
      <4>2. kept'[b] = 1 BY <1>1, <3>1 DEF TypeOK
      <4>3. QED BY <4>1, <4>2, FS_EmptySet
    <3>2. CASE thread'[t].at = "callback" /\ thread'[t].wrapped = b /\ kept' = kept
      <4>1. Holders(b)' = {t} BY <1>1, <1>3, <3>2 DEF Holders
      <4>2. QED BY <1>1, <3>2, <4>1, FS_Singleton
    <3>3. QED BY <1>3, <3>1, <3>2
  <2>2. BlockRefs(b)' BY <1>4, <2>1 DEF BlockRefs, Live
  <2>3. \A c \in Blocks \ {b} : Holders(c)' = Holders(c)
    BY <1>2, <1>3 DEF Holders, Idle
  <2>4. QED BY <1>1, <1>4, <1>6, <2>2, <2>3, OthersCount
<1>8. DeviceRefsBalanced'
  <2>1. \A d : \A c \in Blocks : FormsOf(block'[c], d) = FormsOf(block[c], d)
    BY <1>1, <1>4 DEF FormsOf, Live
  <2>2. thread'[t].at # "construct" BY <1>3 DEF Idle
  <2>3. QED BY <1>2, <1>3, <2>1, <2>2, BalanceKept DEF PublishNew
<1>9. CallsKnow'
  <2>1. \A u \in Threads \ {t} :
          (CandidateIsOwn(u) /\ WrappedIsFound(u) /\ WrapsWhenDropping(u) /\ DeletesAlone(u))'
    <3>1. ~Building(t)' /\ ~At(t, "delete")' BY <1>3 DEF Building, At, Idle
    <3>2. QED BY <1>1, <1>3, <1>4, <3>1, OthersKnow
  <2>2. (CandidateIsOwn(t) /\ WrappedIsFound(t) /\ WrapsWhenDropping(t) /\ DeletesAlone(t))'
    BY <1>3, <1>6 DEF CandidateIsOwn, WrappedIsFound, WrapsWhenDropping, DeletesAlone, Building,
                      At, Idle
  <2>3. QED BY <2>1, <2>2 DEF CallsKnow
<1>10. KeptAreFound'
  BY <1>6 DEF KeptAreFound
<1>11. OneWrapper'
  <2>1. \A c \in Blocks : Registered(c) => block[c].device # block[b].device
    BY <1>1 DEF PublishNew, Twins
  <2>2. QED BY <1>1, <1>4, <1>6, <2>1 DEF OneWrapper
<1>12. QED BY <1>5, <1>7, <1>8, <1>9, <1>10, <1>11

(* ... or an existing wrapper gets one more reference, or has not the form *)
(* that was asked for.                                                     *)
LEMMA PublishTwinStep ==
  ASSUME DevicesInv, NEW t \in Threads, NEW b, ShareTwin(t, b)
  PROVE  DevicesInv'
<1> USE DEF DevicesInv
<1>1. b \in Blocks /\ Registered(b) /\ Live(b) /\ block[b].registered /\ block[b].refs > 0
  BY DEF ShareTwin, Twins, Registered, RefsAreOwned
<1>2. \A u \in Threads :
           /\ Building(u) => thread[u].candidate # b
           /\ At(u, "delete") => thread[u].block # b
  BY <1>1, RegisteredIsShared
<1>3. thread[t] \in OpenCall /\ thread[t].at = "publish"
  BY CallShapes DEF ShareTwin, At, Busy
<1>4. /\ \A u \in Threads \ {t} : thread'[u] = thread[u]
      /\ thread'[t] \in OpenCall /\ thread'[t].at = "drop" /\ thread'[t].wrapped = b
      /\ thread'[t].candidate = thread[t].candidate /\ thread'[t].device = thread[t].device
  BY <1>1, <1>3 DEF ShareTwin, TypeOK, OpenCall, Busy
<1>5. /\ block' \in [Blocks -> BlockType] /\ \A c \in Blocks \ {b} : block'[c] = block[c]
      /\ block'[b].state = "live" /\ block'[b].device = block[b].device
      /\ block'[b].forms = block[b].forms
      /\ block'[b].refs = block[b].refs + 1 /\ block'[b].registered = TRUE
  BY <1>1 DEF ShareTwin, TypeOK, BlockType, Live
<1>6. TypeOK'
  <2>1. thread' \in [Threads -> CallType]
    BY <1>4 DEF ShareTwin, TypeOK, CallType, OpenCall, Busy
  <2>2. QED BY <1>5, <2>1 DEF ShareTwin, TypeOK
<1>7. \A c \in Blocks : Registered(c)' <=> Registered(c)
  BY <1>1, <1>5 DEF Registered, Live
<1>8. thread[t].candidate \in Blocks /\ ~block[thread[t].candidate].registered
      /\ Live(thread[t].candidate) /\ block[thread[t].candidate].device = thread[t].device
  BY <1>3 DEF CallsKnow, CandidateIsOwn, Building
<1>9. RefsAreOwned'
  <2>1. Cardinality(Holders(b)') = Cardinality(Holders(b)) + 1 /\ Cardinality(Holders(b)) \in Nat
    <3>1. Bit(Holds(t, b)) = 0 /\ Bit(Holds(t, b)') = 1
      BY <1>2, <1>3, <1>4 DEF Holds, Building, Bit
    <3>2. QED BY <1>4, <3>1, HoldersTally
  <2>2. block[b].refs = kept[b] + Cardinality(Holders(b)) /\ block[b].refs \in Nat /\ kept[b] \in Nat
    BY <1>1 DEF RefsAreOwned, TypeOK, BlockType, Live
  <2>3. BlockRefs(b)' BY <1>1, <1>5, <2>1, <2>2 DEF ShareTwin, BlockRefs, Live
  <2>4. \A c \in Blocks \ {b} : Holders(c)' = Holders(c)
    BY <1>3, <1>4 DEF Holders
  <2>5. QED BY <1>1, <1>5, <2>3, <2>4, OthersCount DEF ShareTwin
<1>10. DeviceRefsBalanced'
  <2>1. \A d : \A c \in Blocks : FormsOf(block'[c], d) = FormsOf(block[c], d)
    BY <1>1, <1>5 DEF FormsOf, Live
  <2>2. QED BY <1>3, <1>4, <2>1, BalanceKept DEF ShareTwin
<1>11. CallsKnow'
  <2>1. \A u \in Threads \ {t} :
          (CandidateIsOwn(u) /\ WrappedIsFound(u) /\ WrapsWhenDropping(u) /\ DeletesAlone(u))'
    <3>1. \A u \in Threads \ {t} : Building(u) => thread[u].candidate # thread'[t].candidate
      BY <1>3, <1>4 DEF CallsKnow, CandidateIsOwn, Building
    <3>2. ~At(t, "delete")' BY <1>4 DEF At
    <3>3. Registered(b)' BY <1>1, <1>7
    <3>4. QED BY <1>1, <1>2, <1>4, <1>5, <3>1, <3>2, <3>3, OthersKnow
  <2>2. CandidateIsOwn(t)'
    <3>1. \A u \in Threads \ {t} : Building(u)' => thread'[u].candidate # thread[t].candidate
      BY <1>3, <1>4 DEF CallsKnow, CandidateIsOwn, Building
    <3>2. block'[thread[t].candidate] = block[thread[t].candidate]
      BY <1>1, <1>5, <1>8
    <3>3. QED BY <1>4, <1>8, <3>1, <3>2 DEF CandidateIsOwn, Live
  <2>3. (WrappedIsFound(t) /\ WrapsWhenDropping(t) /\ DeletesAlone(t))'
    BY <1>1, <1>4, <1>7 DEF WrappedIsFound, WrapsWhenDropping, DeletesAlone, At
  <2>4. QED BY <2>1, <2>2, <2>3 DEF CallsKnow
<1>12. KeptAreFound' /\ OneWrapper'
  BY <1>1, <1>5, <1>7 DEF ShareTwin, KeptAreFound, OneWrapper
<1>13. QED BY <1>6, <1>9, <1>10, <1>11, <1>12

(* The candidate stays its builder's until it is discarded.                *)
LEMMA LacksFormStep ==
  ASSUME DevicesInv, NEW t \in Threads, LacksForm(t)
  PROVE  DevicesInv'
<1> USE DEF DevicesInv
<1>1. thread[t] \in OpenCall /\ thread[t].at = "publish" /\ UNCHANGED <<block, kept, real, bare>>
  BY CallShapes DEF LacksForm, At, Busy
<1>2. /\ \A u \in Threads \ {t} : thread'[u] = thread[u]
      /\ thread'[t] \in OpenCall /\ thread'[t].at = "discard"
      /\ thread'[t].candidate = thread[t].candidate /\ thread'[t].device = thread[t].device
  BY <1>1 DEF LacksForm, Goto, TypeOK, OpenCall, Busy
<1>3. TypeOK'
  <2>1. thread' \in [Threads -> CallType]
    BY <1>2 DEF LacksForm, Goto, TypeOK, CallType, OpenCall, Busy
  <2>2. QED BY <1>1, <2>1 DEF TypeOK
<1>4. \A b : Holders(b)' = Holders(b)
  BY <1>1, <1>2 DEF Holders
<1>5. RefsAreOwned'
  BY <1>1, <1>4 DEF RefsAreOwned, Live, Registered
<1>6. DeviceRefsBalanced'
  BY <1>1, <1>2, BalanceKept
<1>7. CallsKnow'
  <2>1. \A u \in Threads : (Building(u)' <=> Building(u)) /\ thread'[u].candidate = thread[u].candidate
                           /\ thread'[u].device = thread[u].device
    BY <1>1, <1>2 DEF Building
  <2>2. \A u \in Threads : CandidateIsOwn(u)'
    BY <1>1, <2>1 DEF CallsKnow, CandidateIsOwn, Live
  <2>3. \A u \in Threads : WrappedIsFound(u)' /\ WrapsWhenDropping(u)'
    BY <1>1, <1>2 DEF CallsKnow, WrappedIsFound, WrapsWhenDropping, At, Registered, Live
  <2>4. \A u \in Threads : DeletesAlone(u)'
    BY <1>1, <1>2 DEF CallsKnow, DeletesAlone, At, Live
  <2>5. QED BY <2>2, <2>3, <2>4 DEF CallsKnow
<1>8. KeptAreFound' /\ OneWrapper'
  BY <1>1 DEF KeptAreFound, OneWrapper, Registered, Live
<1>9. QED BY <1>3, <1>5, <1>6, <1>7, <1>8

(* A step of t leaves block b deleted, which nobody else referred to.      *)
LEMMA OthersAfterDeletion ==
  ASSUME DevicesInv, NEW t \in Threads, NEW b \in Blocks, block'[b] = [state |-> "deleted"],
         \A c \in Blocks \ {b} : block'[c] = block[c],
         \A u \in Threads \ {t} : thread'[u] = thread[u],
         Holders(b) \subseteq {t}, \A u \in Threads \ {t} : At(u, "delete") => thread[u].block # b,
         ~Building(t)', ~At(t, "delete")'
  PROVE  \A u \in Threads \ {t} :
           (CandidateIsOwn(u) /\ WrappedIsFound(u) /\ WrapsWhenDropping(u) /\ DeletesAlone(u))'
<1>1. \A u \in Threads \ {t} :
         /\ Building(u) => thread[u].candidate # b
         /\ thread[u].at \in {"drop", "callback"} => thread[u].wrapped # b
  BY DEF Holders, Building
<1>2. QED BY <1>1, OthersKnow DEF DevicesInv

(* A candidate that lost against an existing wrapper dies with all its     *)
(* references; the wrapper is returned.                                    *)
LEMMA DropStep ==
  ASSUME DevicesInv, NEW t \in Threads, DropCandidate(t)
  PROVE  DevicesInv'
<1> USE DEF DevicesInv
<1>1. thread[t] \in OpenCall /\ thread[t].at = "drop"
  BY CallShapes DEF DropCandidate, At, Busy
<1>2. PICK b, w, d : b = thread[t].candidate /\ w = thread[t].wrapped /\ d = thread[t].device
  OBVIOUS
<1>3. /\ b \in Blocks /\ Live(b) /\ ~Registered(b) /\ block[b].device = d
      /\ kept[b] = 0 /\ Holders(b) = {t}
      /\ \A u \in Threads : At(u, "delete") => thread[u].block # b
  BY <1>1, <1>2, CandidateIsHeldOnce DEF Building
<1>4. w \in Blocks /\ Registered(w) /\ w # b /\ d \in Devices
  BY <1>1, <1>2, <1>3 DEF CallsKnow, WrapsWhenDropping, WrappedIsFound, At, OpenCall
<1>5. /\ \A u \in Threads \ {t} : thread'[u] = thread[u]
      /\ \/ /\ thread'[t] \in OpenCall /\ thread'[t].at = "callback" /\ thread'[t].wrapped = w
            /\ kept' = kept
         \/ thread'[t] = Idle /\ kept' = [kept EXCEPT ![w] = @ + 1]
  BY <1>1, <1>2, <1>4 DEF DropCandidate, Deliver, TypeOK, OpenCall, Busy
<1>6. /\ block' \in [Blocks -> BlockType] /\ \A c \in Blocks \ {b} : block'[c] = block[c]
      /\ block'[b] = [state |-> "deleted"] /\ ~Live(b)' /\ bare' = bare
  BY <1>2, <1>3 DEF DropCandidate, TypeOK, BlockType, Live
<1>7. \A e \in Devices :
        real'[e] = bare'[e] + Cardinality(Constructing(e)') + Cardinality(Shares(e)')
        /\ real'[e] \in Nat
  <2> TAKE e \in Devices
  <2>1. /\ real[e] = bare[e] + Cardinality(Constructing(e)) + Cardinality(Shares(e))
        /\ bare[e] \in Nat /\ bare'[e] = bare[e] /\ real[e] \in Nat
    BY <1>6 DEF DeviceRefsBalanced, TypeOK
  <2>2. Cardinality(Constructing(e)') = Cardinality(Constructing(e))
        /\ Cardinality(Constructing(e)) \in Nat
    <3>1. /\ Bit(At(t, "construct") /\ thread[t].device = e) = 0
          /\ Bit(At(t, "construct")' /\ thread'[t].device = e) = 0
      BY <1>1, <1>5 DEF Bit, At, Idle
    <3>2. QED BY <1>5, <3>1, ConstructingTally
  <2>3. /\ SharesOf(block'[b], e) = 0
        /\ SharesOf(block[b], e) = IF d = e THEN RealRefs(b) ELSE 0
    BY <1>3, <1>6, OwnShares
  <2>4. Cardinality(Shares(e)') = Cardinality(Shares(e)) - SharesOf(block[b], e)
        /\ Cardinality(Shares(e)') \in Nat /\ SharesOf(block[b], e) \in Nat
    BY <1>3, <1>6, <2>3, SharesTally DEF TypeOK
  <2>5. real'[e] = real[e] - SharesOf(block[b], e)
    <3>1. real' = [real EXCEPT ![d] = @ - RealRefs(b)] BY <1>2 DEF DropCandidate
    <3>2. QED BY <1>4, <2>1, <2>3, <3>1 DEF TypeOK
  <2>6. Cardinality(Shares(e)) \in Nat BY SharesCount DEF TypeOK
  <2>7. QED BY <2>1, <2>2, <2>4, <2>5, <2>6
<1>8. TypeOK'
  <2>1. real' \in [Devices -> Nat] BY <1>7 DEF DropCandidate, TypeOK
  <2>2. thread' \in [Threads -> CallType]
    BY <1>5 DEF DropCandidate, Deliver, TypeOK, CallType, OpenCall, Busy
  <2>3. kept' \in [Blocks -> Nat] BY <1>4, <1>5 DEF TypeOK
  <2>4. QED BY <1>6, <2>1, <2>2, <2>3 DEF TypeOK
<1>9. RefsAreOwned'
  <2>1. Holders(b)' = {} /\ kept'[b] = 0
    BY <1>2, <1>3, <1>4, <1>5 DEF Holders, Idle, TypeOK
  <2>2. kept'[w] + Cardinality(Holders(w)') = kept[w] + Cardinality(Holders(w))
    <3>1. Holds(t, w) BY <1>1, <1>2 DEF Holds
    <3>2. CASE thread'[t].at = "callback" /\ thread'[t].wrapped = w /\ kept' = kept
      <4>1. Bit(Holds(t, w)) = 1 /\ Bit(Holds(t, w)') = 1 BY <3>1, <3>2 DEF Holds, Bit
      <4>2. Cardinality(Holders(w)') = Cardinality(Holders(w)) BY <1>5, <4>1, HoldersTally
      <4>3. QED BY <3>2, <4>2
    <3>3. CASE thread'[t] = Idle /\ kept' = [kept EXCEPT ![w] = @ + 1]
      <4>1. Bit(Holds(t, w)) = 1 /\ Bit(Holds(t, w)') = 0 BY <3>1, <3>3 DEF Holds, Bit, Idle
      <4>2. Cardinality(Holders(w)') = Cardinality(Holders(w)) - 1 /\ Cardinality(Holders(w)) \in Nat
        BY <1>5, <4>1, HoldersTally
      <4>3. kept'[w] = kept[w] + 1 /\ kept[w] \in Nat BY <1>4, <3>3 DEF TypeOK
      <4>4. QED BY <4>2, <4>3
    <3>4. QED BY <1>5, <3>2, <3>3
  <2>3. \A c \in Blocks \ {b, w} : Holders(c)' = Holders(c) /\ kept'[c] = kept[c]
    BY <1>1, <1>2, <1>5 DEF Holders, Idle, TypeOK
  <2> SUFFICES ASSUME NEW c \in Blocks PROVE BlockRefs(c)'
    BY DEF RefsAreOwned, BlockRefs
  <2>4. CASE c = b BY <1>6, <2>1, <2>4 DEF BlockRefs, Registered
  <2>5. CASE c = w
    BY <1>4, <1>6, <2>2, <2>5 DEF RefsAreOwned, BlockRefs, Registered, Live
  <2>6. CASE c \notin {b, w}
    BY <1>6, <2>3, <2>6 DEF RefsAreOwned, BlockRefs, Registered, Live
  <2>7. QED BY <2>4, <2>5, <2>6
<1>10. CallsKnow'
  <2>1. ~Building(t)' /\ ~At(t, "delete")' BY <1>5 DEF Building, At, Idle
  <2>2. \A u \in Threads \ {t} :
          (CandidateIsOwn(u) /\ WrappedIsFound(u) /\ WrapsWhenDropping(u) /\ DeletesAlone(u))'
    BY <1>3, <1>5, <1>6, <2>1, OthersAfterDeletion
  <2>3. (CandidateIsOwn(t) /\ WrappedIsFound(t) /\ WrapsWhenDropping(t) /\ DeletesAlone(t))'
    BY <1>4, <1>5, <1>6 DEF CandidateIsOwn, WrappedIsFound, WrapsWhenDropping, DeletesAlone,
                            Building, At, Idle, Registered, Live
  <2>4. QED BY <2>2, <2>3 DEF CallsKnow
<1>11. KeptAreFound' /\ OneWrapper'
  BY <1>3, <1>4, <1>5, <1>6 DEF KeptAreFound, OneWrapper, Registered, Live, TypeOK
<1>12. QED BY <1>7, <1>8, <1>9, <1>10, <1>11 DEF DeviceRefsBalanced

(* A call that comes back without a wrapper gives up surplus references    *)
(* and the one that it came with, or hands that one over to the game.      *)
LEMMA FailOpenEffect ==
  ASSUME TypeOK, NEW t \in Threads, thread[t] \in OpenCall, NEW d, d = thread[t].device,
         NEW surplus \in Int, FailOpen(t, surplus)
  PROVE  /\ \A u \in Threads \ {t} : thread'[u] = thread[u]
         /\ \/ thread'[t] \in OpenCall /\ thread'[t].at = "callback" /\ thread'[t].wrapped = NoBlock
            \/ thread'[t] = Idle
         /\ thread' \in [Threads -> CallType]
         /\ bare' \in [Devices -> Nat] /\ real' = [e \in Devices |-> real'[e]]
         /\ \A e \in Devices : real'[e] - bare'[e] =
              real[e] - bare[e] - (IF d = e THEN surplus + 1 ELSE 0)
         /\ \A e \in Devices : real'[e] \in Int
<1>1. d \in Devices BY DEF OpenCall
<1>2. CASE thread[t].lent
  <2>1. /\ real' = [real EXCEPT ![d] = @ - surplus - 1] /\ bare' = bare
        /\ thread' = [thread EXCEPT ![t].at = "callback", ![t].wrapped = NoBlock]
    BY <1>2 DEF FailOpen
  <2>2. /\ \A u \in Threads \ {t} : thread'[u] = thread[u]
        /\ thread'[t] \in OpenCall /\ thread'[t].at = "callback" /\ thread'[t].wrapped = NoBlock
    BY <2>1 DEF TypeOK, OpenCall, Busy
  <2>3. thread' \in [Threads -> CallType]
    BY <2>1, <2>2 DEF TypeOK, CallType, OpenCall, Busy
  <2>4. \A e \in Devices : real'[e] = real[e] - (IF d = e THEN surplus + 1 ELSE 0)
    BY <1>1, <2>1 DEF TypeOK
  <2>5. \A e \in Devices : real[e] \in Nat /\ bare[e] \in Nat BY DEF TypeOK
  <2>6. bare' \in [Devices -> Nat] BY <2>1 DEF TypeOK
  <2>7. real' = [e \in Devices |-> real'[e]] BY <2>1 DEF TypeOK
  <2>8. QED BY <2>1, <2>2, <2>3, <2>4, <2>5, <2>6, <2>7
<1>3. CASE ~thread[t].lent
  <2>1. /\ real' = [real EXCEPT ![d] = @ - surplus] /\ bare' = [bare EXCEPT ![d] = @ + 1]
        /\ thread' = [thread EXCEPT ![t] = Idle]
    BY <1>3 DEF FailOpen
  <2>2. (\A u \in Threads \ {t} : thread'[u] = thread[u]) /\ thread'[t] = Idle
    BY <2>1 DEF TypeOK
  <2>3. thread' \in [Threads -> CallType]
    BY <2>1, <2>2 DEF TypeOK, CallType
  <2>4. \A e \in Devices : /\ real'[e] = real[e] - (IF d = e THEN surplus ELSE 0)
                           /\ bare'[e] = bare[e] + (IF d = e THEN 1 ELSE 0)
    BY <1>1, <2>1 DEF TypeOK
  <2>5. \A e \in Devices : real[e] \in Nat /\ bare[e] \in Nat BY DEF TypeOK
  <2>6. bare' \in [Devices -> Nat] BY <1>1, <2>1 DEF TypeOK
  <2>7. real' = [e \in Devices |-> real'[e]] BY <2>1 DEF TypeOK
  <2>8. QED BY <2>2, <2>3, <2>4, <2>5, <2>6, <2>7
<1>4. QED BY <1>2, <1>3

(* No block: the reference from the driver is handed over or dropped.      *)
LEMMA ConstructFailsStep ==
  ASSUME DevicesInv, NEW t \in Threads, ConstructFails(t)
  PROVE  DevicesInv'
<1> USE DEF DevicesInv
<1>1. /\ thread[t] \in OpenCall /\ thread[t].at = "construct"
      /\ FailOpen(t, 0) /\ UNCHANGED <<block, kept>>
  BY CallShapes DEF ConstructFails, At, Busy
<1>2. PICK d : d = thread[t].device
  OBVIOUS
<1>3. /\ \A u \in Threads \ {t} : thread'[u] = thread[u]
      /\ \/ thread'[t] \in OpenCall /\ thread'[t].at = "callback" /\ thread'[t].wrapped = NoBlock
         \/ thread'[t] = Idle
      /\ thread' \in [Threads -> CallType]
      /\ bare' \in [Devices -> Nat] /\ real' = [e \in Devices |-> real'[e]]
      /\ \A e \in Devices : /\ real'[e] - bare'[e] = real[e] - bare[e] - Bit(d = e)
                            /\ real'[e] \in Int
  BY <1>1, <1>2, FailOpenEffect DEF Bit
<1>4. \A e \in Devices :
        real'[e] = bare'[e] + Cardinality(Constructing(e)') + Cardinality(Shares(e)')
        /\ real'[e] \in Nat
  <2> TAKE e \in Devices
  <2>1. /\ real[e] = bare[e] + Cardinality(Constructing(e)) + Cardinality(Shares(e))
        /\ bare[e] \in Nat /\ bare'[e] \in Nat /\ real[e] \in Nat
    BY <1>3 DEF DeviceRefsBalanced, TypeOK
  <2>2. /\ Cardinality(Constructing(e)') = Cardinality(Constructing(e)) - Bit(d = e)
        /\ Cardinality(Constructing(e)) \in Nat /\ Cardinality(Constructing(e)') \in Nat
    <3>1. /\ Bit(At(t, "construct") /\ thread[t].device = e) = Bit(d = e)
          /\ Bit(At(t, "construct")' /\ thread'[t].device = e) = 0
      BY <1>1, <1>2, <1>3 DEF Bit, At, Idle
    <3>2. Bit(d = e) \in Nat BY DEF Bit
    <3>3. QED BY <1>3, <3>1, <3>2, ConstructingTally
  <2>3. Shares(e)' = Shares(e) BY <1>1 DEF Shares, Owned, Live
  <2>4. Cardinality(Shares(e)) \in Nat BY SharesCount DEF TypeOK
  <2>5. /\ real'[e] - bare'[e] = real[e] - bare[e] - Bit(d = e) /\ real'[e] \in Int
        /\ Bit(d = e) \in Nat
    BY <1>3 DEF Bit
  <2>6. QED BY <2>1, <2>2, <2>3, <2>4, <2>5
<1>5. TypeOK'
  BY <1>1, <1>3, <1>4 DEF TypeOK
<1>6. \A b \in Blocks : Holders(b)' = Holders(b)
  BY <1>1, <1>3, WrapperConstants DEF Holders, Idle
<1>7. RefsAreOwned'
  BY <1>1, <1>6 DEF RefsAreOwned, Live, Registered
<1>8. CallsKnow'
  <2>1. (CandidateIsOwn(t) /\ WrappedIsFound(t) /\ WrapsWhenDropping(t) /\ DeletesAlone(t))'
    BY <1>3, WrapperConstants
    DEF CandidateIsOwn, WrappedIsFound, WrapsWhenDropping, DeletesAlone, Building, At, Idle
  <2>2. ~Building(t)' /\ ~At(t, "delete")' BY <1>3 DEF Building, At, Idle
  <2>3. \A u \in Threads \ {t} :
          (CandidateIsOwn(u) /\ WrappedIsFound(u) /\ WrapsWhenDropping(u) /\ DeletesAlone(u))'
    BY <1>1, <1>3, <2>2 DEF CallsKnow, CandidateIsOwn, WrappedIsFound, WrapsWhenDropping,
         DeletesAlone, Building, At, Live, Registered
  <2>4. QED BY <2>1, <2>3 DEF CallsKnow
<1>9. KeptAreFound' /\ OneWrapper'
  BY <1>1 DEF KeptAreFound, OneWrapper, Registered, Live
<1>10. QED BY <1>4, <1>5, <1>7, <1>8, <1>9 DEF DeviceRefsBalanced

(* The candidate is discarded without the reference that came in.          *)
LEMMA DiscardStep ==
  ASSUME DevicesInv, NEW t \in Threads, DiscardCandidate(t)
  PROVE  DevicesInv'
<1> USE DEF DevicesInv
<1>1. thread[t] \in OpenCall /\ thread[t].at = "discard"
  BY CallShapes DEF DiscardCandidate, At, Busy
<1>2. PICK b, d, n : b = thread[t].candidate /\ d = thread[t].device /\ n = RealRefs(b)
  OBVIOUS
<1>3. /\ b \in Blocks /\ Live(b) /\ ~Registered(b) /\ block[b].device = d
      /\ kept[b] = 0 /\ Holders(b) = {t}
      /\ \A u \in Threads : At(u, "delete") => thread[u].block # b
  BY <1>1, <1>2, CandidateIsHeldOnce DEF Building
<1>4. /\ block' \in [Blocks -> BlockType] /\ \A c \in Blocks \ {b} : block'[c] = block[c]
      /\ block'[b] = [state |-> "deleted"] /\ ~Live(b)' /\ kept' = kept
      /\ FailOpen(t, n - 1)
  BY <1>2, <1>3 DEF DiscardCandidate, Detached, TypeOK, BlockType, Live
<1>5. n \in Nat /\ d \in Devices
  <2>1. SharesOf(block[b], d) \in Nat BY <1>3, FormsTally DEF TypeOK
  <2>2. QED BY <1>1, <1>2, <1>3, <2>1, OwnShares DEF OpenCall
<1>6. /\ \A u \in Threads \ {t} : thread'[u] = thread[u]
      /\ \/ thread'[t] \in OpenCall /\ thread'[t].at = "callback" /\ thread'[t].wrapped = NoBlock
         \/ thread'[t] = Idle
      /\ thread' \in [Threads -> CallType]
      /\ bare' \in [Devices -> Nat] /\ real' = [e \in Devices |-> real'[e]]
      /\ \A e \in Devices :
           /\ real'[e] - bare'[e] = real[e] - bare[e] - (IF d = e THEN n ELSE 0)
           /\ real'[e] \in Int
  <2>1. n - 1 \in Int /\ (n - 1) + 1 = n BY <1>5
  <2>2. QED BY <1>1, <1>2, <1>4, <2>1, FailOpenEffect
<1>7. \A e \in Devices :
        real'[e] = bare'[e] + Cardinality(Constructing(e)') + Cardinality(Shares(e)')
        /\ real'[e] \in Nat
  <2> TAKE e \in Devices
  <2>1. /\ real[e] = bare[e] + Cardinality(Constructing(e)) + Cardinality(Shares(e))
        /\ bare[e] \in Nat /\ bare'[e] \in Nat /\ real[e] \in Nat
    BY <1>6 DEF DeviceRefsBalanced, TypeOK
  <2>2. Cardinality(Constructing(e)') = Cardinality(Constructing(e))
        /\ Cardinality(Constructing(e)) \in Nat
    <3>1. /\ Bit(At(t, "construct") /\ thread[t].device = e) = 0
          /\ Bit(At(t, "construct")' /\ thread'[t].device = e) = 0
      BY <1>1, <1>6 DEF Bit, At, Idle
    <3>2. QED BY <1>6, <3>1, ConstructingTally
  <2>3. /\ SharesOf(block'[b], e) = 0
        /\ SharesOf(block[b], e) = IF d = e THEN n ELSE 0
    BY <1>2, <1>3, <1>4, OwnShares
  <2>4. Cardinality(Shares(e)') = Cardinality(Shares(e)) - (IF d = e THEN n ELSE 0)
        /\ Cardinality(Shares(e)') \in Nat /\ Cardinality(Shares(e)) \in Nat
    BY <1>3, <1>4, <1>5, <2>3, SharesTally DEF TypeOK
  <2>5. real'[e] - bare'[e] = real[e] - bare[e] - (IF d = e THEN n ELSE 0) /\ real'[e] \in Int
    BY <1>6
  <2>6. QED BY <1>5, <2>1, <2>2, <2>4, <2>5
<1>8. TypeOK'
  BY <1>4, <1>6, <1>7 DEF TypeOK
<1>9. RefsAreOwned'
  <2>1. Holders(b)' = {} BY <1>3, <1>6, WrapperConstants DEF Holders, Idle
  <2>2. BlockRefs(b)' BY <1>3, <1>4, <2>1 DEF BlockRefs, Registered
  <2>3. \A c \in Blocks \ {b} : Holders(c)' = Holders(c)
    BY <1>1, <1>2, <1>6, WrapperConstants DEF Holders, Idle
  <2>4. QED BY <1>3, <1>4, <2>2, <2>3, OthersCount
<1>10. CallsKnow'
  <2>1. ~Building(t)' /\ ~At(t, "delete")' BY <1>6 DEF Building, At, Idle
  <2>2. \A u \in Threads \ {t} :
          (CandidateIsOwn(u) /\ WrappedIsFound(u) /\ WrapsWhenDropping(u) /\ DeletesAlone(u))'
    BY <1>3, <1>4, <1>6, <2>1, OthersAfterDeletion
  <2>3. (CandidateIsOwn(t) /\ WrappedIsFound(t) /\ WrapsWhenDropping(t) /\ DeletesAlone(t))'
    BY <1>6, WrapperConstants
    DEF CandidateIsOwn, WrappedIsFound, WrapsWhenDropping, DeletesAlone, Building, At, Idle
  <2>4. QED BY <2>2, <2>3 DEF CallsKnow
<1>11. KeptAreFound' /\ OneWrapper'
  BY <1>3, <1>4 DEF KeptAreFound, OneWrapper, Registered, Live, TypeOK
<1>12. QED BY <1>7, <1>8, <1>9, <1>10, <1>11 DEF DeviceRefsBalanced

(* A wrapper that the game can reach is in the registry.                   *)
LEMMA ReachedIsFound ==
  ASSUME DevicesInv, NEW b \in Blocks, Reaches(b)
  PROVE  /\ Registered(b) /\ block[b].refs > 0 /\ block[b].refs \in Nat
         /\ block[b].refs = kept[b] + Cardinality(Holders(b))
         /\ \A u \in Threads :
              /\ Building(u) => thread[u].candidate # b
              /\ At(u, "delete") => thread[u].block # b
<1>1. Registered(b)
  BY DEF Reaches, DevicesInv, KeptAreFound, CallsKnow, WrappedIsFound, At
<1>2. block[b].refs > 0 /\ block[b].refs = kept[b] + Cardinality(Holders(b))
  BY <1>1 DEF DevicesInv, RefsAreOwned, Registered
<1>3. block[b].refs \in Nat BY <1>1 DEF DevicesInv, TypeOK, BlockType, Registered, Live
<1>4. QED BY <1>1, <1>2, <1>3, RegisteredIsShared DEF DevicesInv

LEMMA AddRefStep ==
  ASSUME DevicesInv, NEW t \in Threads, NEW b \in Blocks, AddRef(t, b)
  PROVE  DevicesInv'
<1> USE DEF DevicesInv
<1>1. Registered(b) /\ block[b].refs \in Nat /\ block[b].refs = kept[b] + Cardinality(Holders(b))
  BY ReachedIsFound, Zenon DEF AddRef, Reaches
<1>2. /\ block' \in [Blocks -> BlockType] /\ \A c \in Blocks \ {b} : block'[c] = block[c]
      /\ block'[b].state = "live" /\ block'[b].device = block[b].device
      /\ block'[b].forms = block[b].forms
      /\ block'[b].refs = block[b].refs + 1 /\ block'[b].registered = TRUE
  BY <1>1 DEF AddRef, TypeOK, BlockType, Registered, Live
<1>3. /\ kept' = [kept EXCEPT ![b] = @ + 1] /\ UNCHANGED <<real, bare, thread>>
      /\ kept[b] \in Nat
  BY DEF AddRef, TypeOK
<1>4. TypeOK'
  BY <1>2, <1>3 DEF TypeOK
<1>5. \A c \in Blocks : Registered(c)' <=> Registered(c)
  BY <1>1, <1>2 DEF Registered, Live
<1>6. \A c \in Blocks : Holders(c)' = Holders(c)
  BY <1>3 DEF Holders
<1>7. RefsAreOwned'
  <2>1. Cardinality(Holders(b)) \in Nat BY WrapperConstants, FS_Subset, FS_CardinalityType DEF Holders
  <2>2. kept'[b] = kept[b] + 1 BY <1>3 DEF TypeOK
  <2>3. BlockRefs(b)' BY <1>1, <1>2, <1>3, <1>6, <2>1, <2>2 DEF BlockRefs, Live
  <2>4. \A c \in Blocks \ {b} : kept'[c] = kept[c] BY <1>3 DEF TypeOK
  <2>5. QED BY <1>2, <1>6, <2>3, <2>4, OthersCount
<1>8. DeviceRefsBalanced'
  <2>1. \A d : Constructing(d)' = Constructing(d) BY <1>3 DEF Constructing, At
  <2>2. \A d : Shares(d)' = Shares(d)
    BY <1>1, <1>2 DEF Shares, Owned, Live, Registered
  <2>3. QED BY <1>3, <2>1, <2>2 DEF DeviceRefsBalanced
<1>9. CallsKnow'
  <2>1. \A u \in Threads : Building(u) => thread[u].candidate # b
    BY <1>1, RegisteredIsShared
  <2>2. \A u \in Threads : At(u, "delete") => thread[u].block \in Blocks \ {b}
    BY <1>1, RegisteredIsShared, CallShapes DEF At
  <2>3. \A u \in Threads : CandidateIsOwn(u)'
    BY <1>2, <1>3, <2>1 DEF CallsKnow, CandidateIsOwn, Building, Live
  <2>4. \A u \in Threads : WrappedIsFound(u)' /\ WrapsWhenDropping(u)'
    BY <1>3, <1>5 DEF CallsKnow, WrappedIsFound, WrapsWhenDropping, At
  <2>5. \A u \in Threads : DeletesAlone(u)'
    BY <1>2, <1>3, <2>2 DEF CallsKnow, DeletesAlone, At, Live
  <2>6. QED BY <2>3, <2>4, <2>5 DEF CallsKnow
<1>10. KeptAreFound' /\ OneWrapper'
  BY <1>1, <1>2, <1>3, <1>5 DEF KeptAreFound, OneWrapper, TypeOK
<1>11. QED BY <1>4, <1>7, <1>8, <1>9, <1>10

(* The reference that Release and the return of a callback give up.        *)
Spends(t, b) ==
  \/ At(t, "idle") /\ kept[b] > 0 /\ kept' = [kept EXCEPT ![b] = @ - 1]
  \/ At(t, "callback") /\ thread[t].wrapped = b /\ kept' = kept

(* WrapperDevice8State::release: the last reference makes this call the    *)
(* one that deletes the block, and nobody else knows it any more.          *)
LEMMA UnrefStep ==
  ASSUME DevicesInv, NEW t \in Threads, NEW b \in Blocks, Spends(t, b), Unref(t, b),
         UNCHANGED <<real, bare>>
  PROVE  DevicesInv'
<1> USE DEF DevicesInv
<1>1. /\ Registered(b) /\ block[b].refs > 0 /\ block[b].refs \in Nat
      /\ block[b].refs = kept[b] + Cardinality(Holders(b))
      /\ \A u \in Threads : /\ Building(u) => thread[u].candidate # b
                            /\ At(u, "delete") => thread[u].block # b
  BY ReachedIsFound, Zenon DEF Spends, Reaches
<1>2. /\ block' \in [Blocks -> BlockType] /\ \A c \in Blocks \ {b} : block'[c] = block[c]
      /\ block'[b].state = "live" /\ block'[b].device = block[b].device
      /\ block'[b].forms = block[b].forms
      /\ block'[b].refs = block[b].refs - 1
      /\ block'[b].registered <=> block[b].refs # 1
  <2>1. PICK stays \in BOOLEAN : stays = StaysRegistered(b) /\ (stays <=> block[b].refs # 1)
    BY <1>1, Zenon DEF StaysRegistered, Registered
  <2>2. block' = [block EXCEPT ![b].refs = @ - 1, ![b].registered = stays]
    BY <2>1 DEF Unref
  <2>3. /\ block[b] \in [state : {"live"}, device : Devices, forms : SUBSET Forms, refs : Nat,
                         registered : BOOLEAN]
        /\ block \in [Blocks -> BlockType]
    BY <1>1 DEF TypeOK, BlockType, Registered, Live
  <2>4. block[b].refs - 1 \in Nat BY <1>1
  <2>5. /\ \A c \in Blocks \ {b} : block'[c] = block[c]
        /\ block'[b] = [state |-> "live", device |-> block[b].device, forms |-> block[b].forms,
                        refs |-> block[b].refs - 1, registered |-> stays]
    BY <2>2, <2>3
  <2>6. block' \in [Blocks -> BlockType]
    <3>1. block'[b] \in BlockType BY <2>1, <2>3, <2>4, <2>5 DEF BlockType
    <3>2. QED BY <2>2, <2>3, <2>5, <3>1
  <2>7. block'[b].registered <=> block[b].refs # 1 BY <2>1, <2>5
  <2>8. QED BY <2>3, <2>5, <2>6, <2>7
<1>3. /\ \A u \in Threads \ {t} : thread'[u] = thread[u]
      /\ \/ block[b].refs = 1 /\ thread'[t] = [at |-> "delete", block |-> b]
         \/ block[b].refs # 1 /\ thread'[t] = Idle
      /\ thread' \in [Threads -> CallType]
  BY DEF Unref, TypeOK, CallType
<1>4. /\ kept[b] \in Nat /\ kept'[b] \in Nat /\ kept' \in [Blocks -> Nat]
      /\ \A c \in Blocks \ {b} : kept'[c] = kept[c]
  BY DEF Spends, TypeOK
<1>5. TypeOK'
  BY <1>2, <1>3, <1>4 DEF TypeOK
<1>6. /\ kept'[b] + Cardinality(Holders(b)') = block[b].refs - 1
      /\ Cardinality(Holders(b)') \in Nat
      /\ Cardinality(Holders(b)') = 0 => Holders(b)' = {}
  <2>1. Bit(Holds(t, b)') = 0 BY <1>3 DEF Holds, Bit, Idle
  <2>2. /\ Cardinality(Holders(b)) \in Nat /\ Cardinality(Holders(b)') \in Nat
        /\ Cardinality(Holders(b)') = Cardinality(Holders(b)) - Bit(Holds(t, b))
        /\ Cardinality(Holders(b)') = 0 => Holders(b)' = {}
    <3>1. Bit(Holds(t, b)) \in Nat BY DEF Bit
    <3>2. QED BY <1>3, <2>1, <3>1, HoldersTally
  <2>3. CASE At(t, "idle") /\ kept' = [kept EXCEPT ![b] = @ - 1]
    <3>1. Bit(Holds(t, b)) = 0 BY <2>3 DEF Holds, Bit, At
    <3>2. kept'[b] = kept[b] - 1 BY <2>3 DEF TypeOK
    <3>3. QED BY <1>1, <1>4, <2>2, <3>1, <3>2
  <2>4. CASE At(t, "callback") /\ thread[t].wrapped = b /\ kept' = kept
    <3>1. Bit(Holds(t, b)) = 1 BY <2>4 DEF Holds, Bit, At
    <3>2. QED BY <1>1, <1>4, <2>2, <2>4, <3>1
  <2>5. QED BY <2>3, <2>4 DEF Spends
<1>7. block[b].refs = 1 => Holders(b)' = {} /\ kept'[b] = 0
  BY <1>4, <1>6
<1>8. /\ block[b].refs # 1 => Registered(b)'
      /\ \A c \in Blocks \ {b} : Registered(c)' <=> Registered(c)
      /\ \A c \in Blocks : Registered(c)' => Registered(c)
  BY <1>1, <1>2 DEF Registered, Live
<1>9. RefsAreOwned'
  <2>1. Registered(b)' => block'[b].refs > 0 BY <1>1, <1>2 DEF Registered
  <2>2. BlockRefs(b)' BY <1>2, <1>6, <2>1 DEF BlockRefs, Live
  <2>3. \A c \in Blocks \ {b} : Holders(c)' = Holders(c)
    BY <1>3 DEF Holders, Idle, Spends, At
  <2>4. QED BY <1>2, <1>4, <2>2, <2>3, OthersCount
<1>10. DeviceRefsBalanced'
  <2>1. \A d : \A c \in Blocks : FormsOf(block'[c], d) = FormsOf(block[c], d)
    BY <1>1, <1>2 DEF FormsOf, Registered, Live
  <2>2. thread[t].at # "construct" /\ thread'[t].at # "construct"
    BY <1>3 DEF Idle, Spends, At
  <2>3. QED BY <1>3, <2>1, <2>2, BalanceKept
<1>11. CallsKnow'
  <2>1. \A u \in Threads \ {t} :
          (CandidateIsOwn(u) /\ WrappedIsFound(u) /\ WrapsWhenDropping(u) /\ DeletesAlone(u))'
    <3>1. \A u \in Threads \ {t} :
            thread[u].at \in {"drop", "callback"} /\ thread[u].wrapped = b => Registered(b)'
      BY <1>3, <1>7, <1>8 DEF Holders
    <3>2. ~Building(t)' /\ (At(t, "delete")' => thread'[t].block = b)
      BY <1>3 DEF Building, At, Idle
    <3>3. QED BY <1>1, <1>2, <1>3, <3>1, <3>2, OthersKnow
  <2>2. (CandidateIsOwn(t) /\ WrappedIsFound(t) /\ WrapsWhenDropping(t))'
    BY <1>3 DEF CandidateIsOwn, WrappedIsFound, WrapsWhenDropping, Building, At, Idle
  <2>3. DeletesAlone(t)'
    BY <1>1, <1>2, <1>3 DEF DeletesAlone, At, Idle, Live
  <2>4. QED BY <2>1, <2>2, <2>3 DEF CallsKnow
<1>12. KeptAreFound'
  BY <1>4, <1>7, <1>8 DEF KeptAreFound
<1>13. OneWrapper'
  BY <1>2, <1>8 DEF OneWrapper
<1>14. QED BY <1>5, <1>9, <1>10, <1>11, <1>12, <1>13

LEMMA ReleaseStep ==
  ASSUME DevicesInv, NEW t \in Threads, NEW b \in Blocks, Release(t, b)
  PROVE  DevicesInv'
BY UnrefStep, Zenon DEF Release, Spends

LEMMA CallbackReturnsStep ==
  ASSUME DevicesInv, NEW t \in Threads, CallbackReturns(t)
  PROVE  DevicesInv'
<1>1. thread[t] \in OpenCall /\ At(t, "callback") /\ UNCHANGED <<real, kept, bare>>
  BY CallShapes DEF DevicesInv, CallbackReturns, At, Busy
<1>2. CASE thread[t].wrapped # NoBlock
  <2>1. PICK b : b = thread[t].wrapped OBVIOUS
  <2>2. b \in Blocks BY <1>1, <1>2, <2>1 DEF OpenCall
  <2>3. Spends(t, b) /\ Unref(t, b)
    BY <1>1, <1>2, <2>1 DEF CallbackReturns, Spends
  <2>4. QED BY <1>1, <2>2, <2>3, UnrefStep
<1>3. CASE thread[t].wrapped = NoBlock
  <2> USE DEF DevicesInv
  <2>1. thread' = [thread EXCEPT ![t] = Idle] /\ UNCHANGED block
    BY <1>3 DEF CallbackReturns
  <2>2. (\A u \in Threads \ {t} : thread'[u] = thread[u]) /\ thread'[t] = Idle
    BY <2>1 DEF TypeOK
  <2>3. TypeOK'
    <3>1. thread' \in [Threads -> CallType] BY <2>1 DEF TypeOK, CallType
    <3>2. QED BY <1>1, <2>1, <3>1 DEF TypeOK
  <2>4. \A b \in Blocks : Holders(b)' = Holders(b)
    BY <1>1, <1>3, <2>2, WrapperConstants DEF Holders, Idle, At
  <2>5. RefsAreOwned'
    BY <1>1, <2>1, <2>4 DEF RefsAreOwned, Live, Registered
  <2>6. DeviceRefsBalanced'
    <3>1. thread[t].at # "construct" /\ thread'[t].at # "construct" BY <1>1, <2>2 DEF At, Idle
    <3>2. QED BY <1>1, <2>1, <2>2, <3>1, BalanceKept
  <2>7. CallsKnow'
    <3>1. (CandidateIsOwn(t) /\ WrappedIsFound(t) /\ WrapsWhenDropping(t) /\ DeletesAlone(t))'
      BY <2>2 DEF CandidateIsOwn, WrappedIsFound, WrapsWhenDropping, DeletesAlone, Building, At, Idle
    <3>2. ~Building(t)' /\ ~At(t, "delete")' BY <2>2 DEF Building, At, Idle
    <3>3. \A u \in Threads \ {t} :
            (CandidateIsOwn(u) /\ WrappedIsFound(u) /\ WrapsWhenDropping(u) /\ DeletesAlone(u))'
      BY <2>1, <2>2, <3>2 DEF CallsKnow, CandidateIsOwn, WrappedIsFound, WrapsWhenDropping,
           DeletesAlone, Building, At, Live, Registered
    <3>4. QED BY <3>1, <3>3 DEF CallsKnow
  <2>8. KeptAreFound' /\ OneWrapper'
    BY <1>1, <2>1 DEF KeptAreFound, OneWrapper, Registered, Live
  <2>9. QED BY <2>3, <2>5, <2>6, <2>7, <2>8
<1>4. QED BY <1>2, <1>3

(* delete this: the block gives up its references to the device.           *)
LEMMA DeleteStep ==
  ASSUME DevicesInv, NEW t \in Threads, Delete(t)
  PROVE  DevicesInv'
<1> USE DEF DevicesInv
<1>1. PICK b, d : b = thread[t].block /\ d = block[b].device
  OBVIOUS
<1>2. /\ b \in Blocks /\ Live(b) /\ block[b].refs = 0 /\ ~Registered(b)
      /\ \A u \in Threads \ {t} : At(u, "delete") => thread[u].block # b
      /\ thread[t].at = "delete"
  BY <1>1, CallShapes DEF Delete, CallsKnow, DeletesAlone, At, Registered
<1>3. kept[b] = 0 /\ Holders(b) = {}
  <2>1. 0 = kept[b] + Cardinality(Holders(b)) BY <1>2 DEF RefsAreOwned
  <2>2. /\ Cardinality(Holders(b)) \in Nat /\ (Cardinality(Holders(b)) = 0 => Holders(b) = {})
    BY WrapperConstants, FS_Subset, FS_CardinalityType, FS_EmptySet DEF Holders
  <2>3. kept[b] \in Nat BY <1>2 DEF TypeOK
  <2>4. QED BY <2>1, <2>2, <2>3
<1>4. /\ block' \in [Blocks -> BlockType] /\ \A c \in Blocks \ {b} : block'[c] = block[c]
      /\ block'[b] = [state |-> "deleted"] /\ ~Live(b)' /\ UNCHANGED <<kept, bare>>
      /\ real' = [real EXCEPT ![d] = @ - RealRefs(b)]
      /\ d \in Devices
  BY <1>1, <1>2 DEF Delete, TypeOK, BlockType, Live
<1>5. /\ \A u \in Threads \ {t} : thread'[u] = thread[u]
      /\ thread'[t] = Idle /\ thread' \in [Threads -> CallType]
  BY DEF Delete, TypeOK, CallType
<1>6. \A e \in Devices :
        real'[e] = bare'[e] + Cardinality(Constructing(e)') + Cardinality(Shares(e)')
        /\ real'[e] \in Nat
  <2> TAKE e \in Devices
  <2>1. /\ real[e] = bare[e] + Cardinality(Constructing(e)) + Cardinality(Shares(e))
        /\ bare[e] \in Nat /\ bare'[e] = bare[e] /\ real[e] \in Nat
    BY <1>4 DEF DeviceRefsBalanced, TypeOK
  <2>2. Constructing(e)' = Constructing(e)
    BY <1>2, <1>5 DEF Constructing, At, Idle
  <2>3. Cardinality(Constructing(e)) \in Nat
    BY WrapperConstants, FS_Subset, FS_CardinalityType DEF Constructing
  <2>4. /\ SharesOf(block'[b], e) = 0
        /\ SharesOf(block[b], e) = IF d = e THEN RealRefs(b) ELSE 0
    BY <1>1, <1>2, <1>4, OwnShares
  <2>5. Cardinality(Shares(e)') = Cardinality(Shares(e)) - SharesOf(block[b], e)
        /\ Cardinality(Shares(e)') \in Nat /\ SharesOf(block[b], e) \in Nat
        /\ Cardinality(Shares(e)) \in Nat
    BY <1>2, <1>4, <2>4, SharesTally DEF TypeOK
  <2>6. real'[e] = real[e] - SharesOf(block[b], e)
    BY <1>4, <2>1, <2>4 DEF TypeOK
  <2>7. QED BY <2>1, <2>2, <2>3, <2>5, <2>6
<1>7. TypeOK'
  <2>1. real' \in [Devices -> Nat] BY <1>4, <1>6 DEF TypeOK
  <2>2. QED BY <1>4, <1>5, <2>1 DEF TypeOK
<1>8. RefsAreOwned'
  <2>1. \A c : Holders(c)' = Holders(c)
    BY <1>2, <1>5 DEF Holders, Idle
  <2>2. BlockRefs(b)' BY <1>3, <1>4, <2>1 DEF BlockRefs, Registered
  <2>3. QED BY <1>2, <1>4, <2>1, <2>2, OthersCount
<1>9. CallsKnow'
  <2>1. ~Building(t)' /\ ~At(t, "delete")' BY <1>5 DEF Building, At, Idle
  <2>2. \A u \in Threads \ {t} :
          (CandidateIsOwn(u) /\ WrappedIsFound(u) /\ WrapsWhenDropping(u) /\ DeletesAlone(u))'
    BY <1>2, <1>3, <1>4, <1>5, <2>1, OthersAfterDeletion
  <2>3. (CandidateIsOwn(t) /\ WrappedIsFound(t) /\ WrapsWhenDropping(t) /\ DeletesAlone(t))'
    BY <1>5 DEF CandidateIsOwn, WrappedIsFound, WrapsWhenDropping, DeletesAlone, Building, At, Idle
  <2>4. QED BY <2>2, <2>3 DEF CallsKnow
<1>10. KeptAreFound' /\ OneWrapper'
  BY <1>2, <1>3, <1>4 DEF KeptAreFound, OneWrapper, Registered, Live, TypeOK
<1>11. QED BY <1>6, <1>7, <1>8, <1>9, <1>10 DEF DeviceRefsBalanced

(* The game takes or gives up n references to an object of the driver.     *)
BareMoves(d, n) ==
  /\ bare' = [bare EXCEPT ![d] = @ + n] /\ real' = [real EXCEPT ![d] = @ + n]
  /\ bare[d] + n \in Nat
  /\ UNCHANGED <<block, kept, thread>>

LEMMA BareStep ==
  ASSUME DevicesInv, NEW d \in Devices, NEW n \in {1, -1}, BareMoves(d, n)
  PROVE  DevicesInv'
<1> USE DEF DevicesInv
<1>1. UNCHANGED <<block, kept, thread>> BY DEF BareMoves
<1>2. \A e : Constructing(e)' = Constructing(e) /\ Shares(e)' = Shares(e)
  BY <1>1 DEF Constructing, At, Shares, Owned, Live
<1>3. \A e \in Devices :
        real'[e] = bare'[e] + Cardinality(Constructing(e)') + Cardinality(Shares(e)')
        /\ real'[e] \in Nat
  <2> TAKE e \in Devices
  <2>1. /\ real[e] = bare[e] + Cardinality(Constructing(e)) + Cardinality(Shares(e))
        /\ bare[e] \in Nat /\ real[e] \in Nat
    BY DEF DeviceRefsBalanced, TypeOK
  <2>2. Cardinality(Constructing(e)) \in Nat
    BY WrapperConstants, FS_Subset, FS_CardinalityType DEF Constructing
  <2>3. Cardinality(Shares(e)) \in Nat BY SharesCount DEF TypeOK
  <2>4. /\ bare'[e] = bare[e] + (IF d = e THEN n ELSE 0)
        /\ real'[e] = real[e] + (IF d = e THEN n ELSE 0)
        /\ bare'[e] \in Nat
    BY <2>1 DEF BareMoves, TypeOK
  <2>5. QED BY <1>2, <2>1, <2>2, <2>3, <2>4
<1>4. TypeOK'
  BY <1>1, <1>3 DEF BareMoves, TypeOK
<1>5. RefsAreOwned' /\ KeptAreFound' /\ OneWrapper'
  BY <1>1 DEF RefsAreOwned, KeptAreFound, OneWrapper, Registered, Live, Holders
<1>6. CallsKnow'
  BY <1>1 DEF CallsKnow, CandidateIsOwn, WrappedIsFound, WrapsWhenDropping, DeletesAlone,
              Building, At, Registered, Live
<1>7. QED BY <1>3, <1>4, <1>5, <1>6 DEF DeviceRefsBalanced

LEMMA QueryBareStep ==
  ASSUME DevicesInv, NEW t \in Threads, NEW b \in Blocks, QueryBare(t, b)
  PROVE  DevicesInv'
<1>1. PICK d : d = block[b].device
  OBVIOUS
<1>2. Registered(b) BY ReachedIsFound, Zenon DEF QueryBare, Reaches
<1>3. d \in Devices /\ bare[d] + 1 \in Nat
  BY <1>1, <1>2 DEF DevicesInv, TypeOK, BlockType, Registered, Live
<1>4. BareMoves(d, 1) BY <1>1, <1>3 DEF QueryBare, BareMoves
<1>5. QED BY <1>3, <1>4, BareStep

LEMMA KeepBareStep ==
  ASSUME DevicesInv, NEW t \in Threads, KeepBare(t)
  PROVE  DevicesInv'
<1>1. PICK d : d = thread[t].device
  OBVIOUS
<1>2. thread[t] \in OpenCall BY CallShapes DEF DevicesInv, KeepBare, At, Busy
<1>3. d \in Devices /\ bare[d] + 1 \in Nat
  BY <1>1, <1>2 DEF DevicesInv, TypeOK, OpenCall
<1>4. BareMoves(d, 1) BY <1>1, <1>3 DEF KeepBare, BareMoves
<1>5. QED BY <1>3, <1>4, BareStep

LEMMA ReleaseBareStep ==
  ASSUME DevicesInv, NEW t \in Threads, NEW d \in Devices, ReleaseBare(t, d)
  PROVE  DevicesInv'
<1>1. bare[d] \in Nat /\ real[d] \in Nat /\ bare[d] > 0 BY DEF DevicesInv, TypeOK, ReleaseBare
<1>2. bare[d] - 1 = bare[d] + (-1) /\ real[d] - 1 = real[d] + (-1) /\ bare[d] + (-1) \in Nat
  BY <1>1
<1>3. BareMoves(d, -1) BY <1>2 DEF ReleaseBare, BareMoves
<1>4. QED BY <1>3, BareStep

LEMMA DevicesStep ==
  ASSUME DevicesInv, [Next]_vars
  PROVE  DevicesInv'
<1>1. CASE UNCHANGED vars
  <2>1. UNCHANGED <<real, block, kept, bare, thread>> BY <1>1 DEF vars
  <2>2. TypeOK' BY <2>1 DEF DevicesInv, TypeOK
  <2>3. RefsAreOwned' /\ KeptAreFound' /\ OneWrapper'
    BY <2>1 DEF DevicesInv, RefsAreOwned, KeptAreFound, OneWrapper, Registered, Live, Holders
  <2>4. DeviceRefsBalanced'
    BY <2>1 DEF DevicesInv, DeviceRefsBalanced, Constructing, At, Shares, Owned, Live
  <2>5. CallsKnow'
    BY <2>1 DEF DevicesInv, CallsKnow, CandidateIsOwn, WrappedIsFound, WrapsWhenDropping,
                DeletesAlone, Building, At, Registered, Live
  <2>6. QED BY <2>2, <2>3, <2>4, <2>5 DEF DevicesInv
<1>2. ASSUME NEW t \in Threads,
             \/ \E d \in Devices, form \in Forms, lent \in BOOLEAN : Obtain(t, d, form, lent)
             \/ \E d \in Devices : ReleaseBare(t, d)
      PROVE  DevicesInv'
  BY <1>2, ObtainStep, ReleaseBareStep
<1>3. ASSUME NEW t \in Threads, Construct(t) \/ ConstructFails(t) \/ Publish(t)
      PROVE  DevicesInv'
  BY <1>3, ConstructStep, ConstructFailsStep, PublishOutcomes, PublishNewStep, PublishTwinStep,
     LacksFormStep
<1>4. ASSUME NEW t \in Threads,
             \/ DropCandidate(t) \/ DiscardCandidate(t) \/ Delete(t)
             \/ CallbackReturns(t) \/ KeepBare(t)
      PROVE  DevicesInv'
  BY <1>4, DropStep, DiscardStep, DeleteStep, CallbackReturnsStep, KeepBareStep
<1>5. ASSUME NEW t \in Threads, NEW b \in Blocks, AddRef(t, b) \/ QueryBare(t, b) \/ Release(t, b)
      PROVE  DevicesInv'
  BY <1>5, AddRefStep, QueryBareStep, ReleaseStep
<1>6. QED BY <1>1, <1>2, <1>3, <1>4, <1>5 DEF Next

LEMMA DevicesHold == Spec => []DevicesInv
<1>1. Init => DevicesInv BY DevicesInit
<1>2. DevicesInv /\ [Next]_vars => DevicesInv' BY DevicesStep
<1>3. QED BY <1>1, <1>2, PTL DEF Spec

(* Every reference to a device or to its wrapper is counted once on both   *)
(* sides, whatever the threads of the game do at once: none is leaked or   *)
(* released twice by CreateDevice, by the enumeration, by their failures   *)
(* or by the last Release.                                                 *)
THEOREM DeviceRefsAreExact == Spec => []DeviceRefsExact
<1>1. DevicesInv => DeviceRefsExact BY DEF DevicesInv, DeviceRefsExact
<1>2. QED BY <1>1, DevicesHold, PTL

(* The game never sees two wrappers of one device, however many threads    *)
(* are handed the device while the registry does not yet know it.          *)
THEOREM DevicesHaveOneIdentity == Spec => []OneIdentity
<1>1. DevicesInv => OneIdentity
  <2> SUFFICES ASSUME DevicesInv, NEW b \in Blocks, NEW c \in Blocks, Reaches(b), Reaches(c),
                      block[b].device = block[c].device
               PROVE  b = c
    BY DEF OneIdentity
  <2>1. Registered(b) /\ Registered(c) BY ReachedIsFound
  <2>2. QED BY <2>1 DEF DevicesInv, OneWrapper
<1>2. QED BY <1>1, DevicesHold, PTL

(***************************************************************************)
(* Effects.                                                                *)
(***************************************************************************)

UseLabels  == {"announce", "callback", "emit"}
LentLabels == {"find", "callback", "bareCallback", "lastCallback", "deleteCallback", "lent"}
EndLabels  == {"last", "lastCallback", "delete", "deleteCallback"}
CreateLabels == {"register"}
AnnounceLabels == {"announce"}
LastLabels == {"last", "lastCallback"}

(* Calls that use a reference to the wrapper, that create the effect, and  *)
(* that an enumeration has lent the effect to.                             *)
Uses(e)    == Cardinality(E!In(UseLabels, e))
Creates(e) == Cardinality(E!In(CreateLabels, e))
Borrows(e) == Cardinality(E!In(LentLabels, e))

EffectCounts(e) ==
  /\ refs[e] = eKept[e] + Uses(e)
  /\ registered[e] <=> refs[e] > 0
  /\ refs[e] > 0 => wrapper[e] = "live"
  /\ driver[e] = eBare[e] + Bit(wrapper[e] = "live") + Creates(e) + Borrows(e)

(* One call creates an effect, before its wrapper; one call ends it, after *)
(* its last reference; a live wrapper has been announced, unless the call  *)
(* that will do so still holds its reference; and Release is not heard of  *)
(* a wrapper that has references left.                                     *)
EffectLife(e) ==
  /\ \A t \in E!In(CreateLabels, e) :
       wrapper[e] = "none" /\ \A u \in E!In(CreateLabels, e) : u = t
  /\ \A t \in E!In(EndLabels, e) :
       wrapper[e] = "live" /\ refs[e] = 0 /\ \A u \in E!In(EndLabels, e) : u = t
  /\ wrapper[e] = "live" => "EffectCreated" \in heard[e] \/ E!In(AnnounceLabels, e) # {}
  /\ wrapper[e] = "none" \/ E!In(LastLabels, e) # {} => "Release" \notin heard[e]
  /\ "Release" \in heard[e] => refs[e] = 0 /\ "EffectCreated" \in heard[e]

EffectsInv == E!TypeOK /\ \A e \in Effects : EffectCounts(e) /\ EffectLife(e)

LEMMA SameCardinality == \A S : E!Cardinality(S) = Cardinality(S)
BY DEF Cardinality, E!Cardinality

LEMMA EffectsInvMeans ==
  EffectsInv => E!TypeOK /\ E!WrapperRefsExact /\ E!DriverRefsExact /\ E!ReleaseIsLast
<1> SUFFICES ASSUME EffectsInv
             PROVE  E!WrapperRefsExact /\ E!DriverRefsExact /\ E!ReleaseIsLast
  BY DEF EffectsInv
<1>1. E!WrapperRefsExact
  BY SameCardinality DEF EffectsInv, EffectCounts, Uses, UseLabels, E!WrapperRefsExact
<1>2. E!DriverRefsExact
  BY SameCardinality DEF EffectsInv, EffectCounts, Creates, Borrows, CreateLabels, LentLabels, Bit, E!DriverRefsExact
<1>3. ASSUME NEW e \in Effects, "Release" \in heard[e]
      PROVE  /\ "EffectCreated" \in heard[e] /\ eKept[e] = 0
             /\ E!In({"register", "announce", "callback", "emit", "last", "lastCallback"}, e) = {}
  <2>1. refs[e] = 0 /\ "EffectCreated" \in heard[e] /\ refs[e] = eKept[e] + Uses(e)
        /\ eKept[e] \in Nat
    BY <1>3 DEF EffectsInv, EffectCounts, EffectLife, E!TypeOK
  <2>2. IsFiniteSet(E!In(UseLabels, e))
    BY WrapperConstants, FS_Subset DEF E!In
  <2>3. Uses(e) \in Nat /\ (Uses(e) = 0 => E!In(UseLabels, e) = {})
    BY <2>2, FS_CardinalityType, FS_EmptySet DEF Uses
  <2>4. eKept[e] = 0 /\ E!In(UseLabels, e) = {}
    BY <2>1, <2>3
  <2>5. E!In(CreateLabels, e) = {} /\ E!In(LastLabels, e) = {}
    BY <1>3 DEF EffectsInv, EffectLife
  <2>6. QED BY <2>1, <2>4, <2>5 DEF E!In, UseLabels, CreateLabels, LastLabels
<1>4. QED BY <1>1, <1>2, <1>3 DEF E!ReleaseIsLast

(* A call of t goes from one label to another, about effect e.             *)
Moves(t, e, from, to) ==
  /\ \A u \in Threads \ {t} : eThread'[u] = eThread[u]
  /\ eThread[t].at = from /\ (from # "idle" => eThread[t].effect = e)
  /\ eThread'[t].at = to /\ (to # "idle" => eThread'[t].effect = e)

LEMMA MoveTally ==
  ASSUME NEW t \in Threads, NEW e, NEW from, NEW to, Moves(t, e, from, to),
         NEW labels, "idle" \notin labels
  PROVE  /\ IsFiniteSet(E!In(labels, e)) /\ IsFiniteSet(E!In(labels, e)')
         /\ Cardinality(E!In(labels, e)) \in Nat /\ Cardinality(E!In(labels, e)') \in Nat
         /\ Cardinality(E!In(labels, e)') - Bit(to \in labels)
              = Cardinality(E!In(labels, e)) - Bit(from \in labels)
         /\ E!In(labels, e)' = IF to \in labels THEN E!In(labels, e) \union {t}
                                                ELSE E!In(labels, e) \ {t}
         /\ t \in E!In(labels, e) <=> from \in labels
         /\ Cardinality(E!In(labels, e)) = 0 => E!In(labels, e) = {}
<1>1. IsFiniteSet(E!In(labels, e)) /\ IsFiniteSet(E!In(labels, e)')
  BY WrapperConstants, FS_Subset DEF E!In
<1>2. E!In(labels, e) \ {t} = E!In(labels, e)' \ {t}
  BY DEF E!In, Moves
<1>3. (t \in E!In(labels, e) <=> from \in labels) /\ (t \in E!In(labels, e)' <=> to \in labels)
  BY DEF E!In, Moves
<1>4. Bit(t \in E!In(labels, e)) = Bit(from \in labels) /\ Bit(t \in E!In(labels, e)') = Bit(to \in labels)
  BY <1>3 DEF Bit
<1>5. E!In(labels, e)' = IF to \in labels THEN E!In(labels, e) \union {t}
                                          ELSE E!In(labels, e) \ {t}
  BY <1>2, <1>3
<1>6. QED BY <1>1, <1>2, <1>3, <1>4, <1>5, Tally, FS_EmptySet

(* What a move does to the counts of e, and to the sets of its calls.      *)
LEMMA MoveCounts ==
  ASSUME NEW t \in Threads, NEW e, NEW from, NEW to, Moves(t, e, from, to)
  PROVE  /\ Uses(e) \in Nat /\ Uses(e)' = Uses(e) + Bit(to \in UseLabels) - Bit(from \in UseLabels)
         /\ Creates(e) \in Nat
         /\ Creates(e)' = Creates(e) + Bit(to \in CreateLabels) - Bit(from \in CreateLabels)
         /\ Borrows(e) \in Nat
         /\ Borrows(e)' = Borrows(e) + Bit(to \in LentLabels) - Bit(from \in LentLabels)
         /\ Uses(e)' \in Nat /\ Creates(e)' \in Nat /\ Borrows(e)' \in Nat
         /\ Uses(e) = 0 => E!In(UseLabels, e) = {}
         /\ Creates(e) = 0 => E!In(CreateLabels, e) = {}
<1>1. "idle" \notin UseLabels /\ "idle" \notin CreateLabels /\ "idle" \notin LentLabels
  BY DEF UseLabels, CreateLabels, LentLabels
<1>3. /\ Uses(e) \in Nat /\ Uses(e)' \in Nat
      /\ Uses(e)' - Bit(to \in UseLabels) = Uses(e) - Bit(from \in UseLabels)
      /\ Uses(e) = 0 => E!In(UseLabels, e) = {}
  BY <1>1, MoveTally DEF Uses
<1>4. /\ Creates(e) \in Nat /\ Creates(e)' \in Nat
      /\ Creates(e)' - Bit(to \in CreateLabels) = Creates(e) - Bit(from \in CreateLabels)
      /\ Creates(e) = 0 => E!In(CreateLabels, e) = {}
  BY <1>1, MoveTally DEF Creates
<1>5. /\ Borrows(e) \in Nat /\ Borrows(e)' \in Nat
      /\ Borrows(e)' - Bit(to \in LentLabels) = Borrows(e) - Bit(from \in LentLabels)
  BY <1>1, MoveTally DEF Borrows
<1>6. /\ Bit(to \in UseLabels) \in Nat /\ Bit(from \in UseLabels) \in Nat
      /\ Bit(to \in CreateLabels) \in Nat /\ Bit(from \in CreateLabels) \in Nat
      /\ Bit(to \in LentLabels) \in Nat /\ Bit(from \in LentLabels) \in Nat
  BY DEF Bit
<1>7. Uses(e)' = Uses(e) + Bit(to \in UseLabels) - Bit(from \in UseLabels) BY <1>3, <1>6
<1>8. Creates(e)' = Creates(e) + Bit(to \in CreateLabels) - Bit(from \in CreateLabels) BY <1>4, <1>6
<1>9. Borrows(e)' = Borrows(e) + Bit(to \in LentLabels) - Bit(from \in LentLabels) BY <1>5, <1>6
<1>10. QED BY <1>3, <1>4, <1>5, <1>7, <1>8, <1>9

(* The step changes the state of no effect but e.                          *)
OnlyEffect(e) ==
  \A f \in Effects \ {e} :
    /\ driver'[f] = driver[f] /\ wrapper'[f] = wrapper[f] /\ refs'[f] = refs[f]
    /\ registered'[f] = registered[f] /\ eKept'[f] = eKept[f] /\ eBare'[f] = eBare[f]
    /\ heard'[f] = heard[f]

LEMMA OtherEffects ==
  ASSUME EffectsInv, NEW t \in Threads, NEW e \in Effects, NEW from, NEW to,
         Moves(t, e, from, to), OnlyEffect(e),
         E!TypeOK', EffectCounts(e)', EffectLife(e)'
  PROVE  EffectsInv'
<1> SUFFICES ASSUME NEW f \in Effects \ {e} PROVE EffectCounts(f)' /\ EffectLife(f)'
  BY DEF EffectsInv
<1>1. ASSUME NEW labels, "idle" \notin labels
      PROVE  E!In(labels, f)' = E!In(labels, f)
  BY <1>1 DEF Moves, E!In
<1>2. /\ E!In(UseLabels, f)' = E!In(UseLabels, f) /\ E!In(LentLabels, f)' = E!In(LentLabels, f)
      /\ E!In(EndLabels, f)' = E!In(EndLabels, f)
      /\ E!In(CreateLabels, f)' = E!In(CreateLabels, f)
      /\ E!In(AnnounceLabels, f)' = E!In(AnnounceLabels, f)
      /\ E!In(LastLabels, f)' = E!In(LastLabels, f)
  BY <1>1 DEF UseLabels, LentLabels, EndLabels, CreateLabels, AnnounceLabels, LastLabels
<1>3. EffectCounts(f) /\ EffectLife(f)
  BY DEF EffectsInv
<1>4. EffectCounts(f)'
  BY <1>2, <1>3 DEF EffectCounts, OnlyEffect, Uses, Creates, Borrows
<1>5. EffectLife(f)'
  BY <1>2, <1>3 DEF EffectLife, OnlyEffect
<1>6. QED BY <1>4, <1>5

LEMMA EffectsInit == E!Init => EffectsInv
<1> SUFFICES ASSUME E!Init PROVE EffectsInv
  OBVIOUS
<1>1. E!TypeOK BY DEF E!Init, E!TypeOK
<1>2. \A e \in Effects : \A labels : "idle" \notin labels => E!In(labels, e) = {}
  BY DEF E!Init, E!In, E!Idle
<1>3. ASSUME NEW e \in Effects PROVE Uses(e) = 0 /\ Creates(e) = 0 /\ Borrows(e) = 0
  <2>1. E!In(UseLabels, e) = {} /\ E!In(CreateLabels, e) = {} /\ E!In(LentLabels, e) = {}
    BY <1>2 DEF UseLabels, CreateLabels, LentLabels
  <2>2. QED BY <2>1, FS_EmptySet DEF Uses, Creates, Borrows
<1>4. ASSUME NEW e \in Effects PROVE EffectCounts(e) /\ EffectLife(e)
  <2>1. EffectCounts(e) BY <1>3 DEF E!Init, EffectCounts, Bit
  <2>2. E!In(CreateLabels, e) = {} /\ E!In(EndLabels, e) = {} BY <1>2 DEF EndLabels, CreateLabels
  <2>3. EffectLife(e) BY <2>2 DEF E!Init, EffectLife
  <2>4. QED BY <2>1, <2>3
<1>5. QED BY <1>1, <1>4 DEF EffectsInv

LEMMA MoveSets ==
  ASSUME NEW t \in Threads, NEW e, NEW from, NEW to, Moves(t, e, from, to)
  PROVE  /\ E!In(CreateLabels, e)' = IF to \in CreateLabels THEN E!In(CreateLabels, e) \union {t}
                                                        ELSE E!In(CreateLabels, e) \ {t}
         /\ E!In(EndLabels, e)' = IF to \in EndLabels THEN E!In(EndLabels, e) \union {t}
                                                      ELSE E!In(EndLabels, e) \ {t}
         /\ E!In(AnnounceLabels, e)' = IF to \in AnnounceLabels THEN E!In(AnnounceLabels, e) \union {t}
                                                        ELSE E!In(AnnounceLabels, e) \ {t}
         /\ E!In(LastLabels, e)' =
              IF to \in LastLabels THEN E!In(LastLabels, e) \union {t}
                                                  ELSE E!In(LastLabels, e) \ {t}
         /\ t \in E!In(CreateLabels, e) <=> from \in CreateLabels
         /\ t \in E!In(EndLabels, e) <=> from \in EndLabels
         /\ t \in E!In(AnnounceLabels, e) <=> from \in AnnounceLabels
         /\ t \in E!In(LastLabels, e) <=> from \in LastLabels
         /\ E!In(LastLabels, e) \subseteq E!In(EndLabels, e)
         /\ E!In(AnnounceLabels, e) \subseteq E!In(UseLabels, e)
<1>1. /\ "idle" \notin EndLabels /\ "idle" \notin CreateLabels
      /\ "idle" \notin AnnounceLabels /\ "idle" \notin LastLabels
  BY DEF EndLabels, CreateLabels, AnnounceLabels, LastLabels
<1>2. /\ E!In(LastLabels, e) \subseteq E!In(EndLabels, e)
      /\ E!In(AnnounceLabels, e) \subseteq E!In(UseLabels, e)
  BY DEF E!In, LastLabels, EndLabels, AnnounceLabels, UseLabels
<1>3. QED BY <1>1, <1>2, MoveTally

(* The call that a thread is in, and the effect that it is about.          *)
LEMMA EffectCalls ==
  ASSUME E!TypeOK, NEW t \in Threads
  PROVE  /\ eThread[t].at = "idle" => eThread[t] = E!Idle
         /\ eThread[t].at # "idle" => eThread[t].effect \in Effects
         /\ eThread[t].at \in E!Labels \union {"idle"}
<1>1. eThread[t] \in {E!Idle} \union [at : E!Labels, effect : Effects] BY DEF E!TypeOK
<1>2. E!Idle.at = "idle" /\ "idle" \notin E!Labels BY DEF E!Idle, E!Labels
<1>3. QED BY <1>1, <1>2

(* Entering, leaving and continuing a call are moves.                      *)
LEMMA CallMoves ==
  ASSUME E!TypeOK, NEW t \in Threads, NEW e \in Effects,
         eThread[t].at = "idle" \/ eThread[t].effect = e
  PROVE  /\ \A to \in E!Labels : E!Call(t, to, e) =>
              /\ Moves(t, e, eThread[t].at, to)
              /\ eThread' \in [Threads -> {E!Idle} \union [at : E!Labels, effect : Effects]]
         /\ E!Return(t) =>
              /\ Moves(t, e, eThread[t].at, "idle")
              /\ eThread' \in [Threads -> {E!Idle} \union [at : E!Labels, effect : Effects]]
         /\ eThread' = eThread =>
              /\ Moves(t, e, eThread[t].at, eThread[t].at)
              /\ eThread' \in [Threads -> {E!Idle} \union [at : E!Labels, effect : Effects]]
<1>1. eThread \in [Threads -> {E!Idle} \union [at : E!Labels, effect : Effects]]
  BY DEF E!TypeOK
<1>2. ASSUME NEW to \in E!Labels, E!Call(t, to, e)
      PROVE  /\ Moves(t, e, eThread[t].at, to)
             /\ eThread' \in [Threads -> {E!Idle} \union [at : E!Labels, effect : Effects]]
  <2>1. eThread' = [eThread EXCEPT ![t] = [at |-> to, effect |-> e]] BY <1>2 DEF E!Call
  <2>2. QED BY <1>1, <2>1 DEF Moves
<1>3. ASSUME E!Return(t)
      PROVE  /\ Moves(t, e, eThread[t].at, "idle")
             /\ eThread' \in [Threads -> {E!Idle} \union [at : E!Labels, effect : Effects]]
  <2>1. eThread' = [eThread EXCEPT ![t] = E!Idle] BY <1>3 DEF E!Return
  <2>2. QED BY <1>1, <2>1 DEF Moves, E!Idle
<1>4. ASSUME eThread' = eThread
      PROVE  Moves(t, e, eThread[t].at, eThread[t].at)
  BY <1>4 DEF Moves
<1>5. QED BY <1>1, <1>2, <1>3, <1>4

(***************************************************************************)
(* What a label adds to the three counts.                                  *)
(***************************************************************************)
UseBit(label)    == Bit(label \in UseLabels)
CreateBit(label) == Bit(label \in CreateLabels)
LentBit(label)   == Bit(label \in LentLabels)

LEMMA LabelBits ==
  /\ \A label : UseBit(label) \in {0, 1} /\ CreateBit(label) \in {0, 1} /\ LentBit(label) \in {0, 1}
  /\ \A label \in {"announce", "callback", "emit"} : UseBit(label) = 1
  /\ \A label \in {"idle", "register", "find", "bareCallback", "lastCallback",
                   "deleteCallback", "lent", "last", "delete"} : UseBit(label) = 0
  /\ CreateBit("register") = 1
  /\ \A label \in {"idle", "announce", "callback", "emit", "find", "bareCallback", "lastCallback",
                   "deleteCallback", "lent", "last", "delete"} : CreateBit(label) = 0
  /\ \A label \in {"find", "callback", "bareCallback", "lastCallback",
                   "deleteCallback", "lent"} : LentBit(label) = 1
  /\ \A label \in {"idle", "register", "announce", "emit", "last", "delete"} : LentBit(label) = 0
BY DEF UseBit, CreateBit, LentBit, Bit, UseLabels, CreateLabels, LentLabels

(* A step about e keeps the invariant when both sides of its two balances  *)
(* change alike.                                                           *)
LEMMA BalancedStep ==
  ASSUME EffectsInv, NEW t \in Threads, NEW e \in Effects, NEW from, NEW to,
         Moves(t, e, from, to), OnlyEffect(e), E!TypeOK', EffectLife(e)',
         refs'[e] = refs[e] + (eKept'[e] - eKept[e]) + (UseBit(to) - UseBit(from)),
         registered'[e] <=> refs'[e] > 0,
         refs'[e] > 0 => wrapper'[e] = "live",
         driver'[e] = driver[e] + (eBare'[e] - eBare[e])
                      + (Bit(wrapper'[e] = "live") - Bit(wrapper[e] = "live"))
                      + (CreateBit(to) - CreateBit(from)) + (LentBit(to) - LentBit(from))
  PROVE  EffectsInv'
<1>1. /\ Uses(e) \in Nat /\ Uses(e)' = Uses(e) + UseBit(to) - UseBit(from)
      /\ Creates(e) \in Nat /\ Creates(e)' = Creates(e) + CreateBit(to) - CreateBit(from)
      /\ Borrows(e) \in Nat /\ Borrows(e)' = Borrows(e) + LentBit(to) - LentBit(from)
  <2>1. /\ Uses(e) \in Nat /\ Uses(e)' = Uses(e) + Bit(to \in UseLabels) - Bit(from \in UseLabels)
        /\ Creates(e) \in Nat
        /\ Creates(e)' = Creates(e) + Bit(to \in CreateLabels) - Bit(from \in CreateLabels)
        /\ Borrows(e) \in Nat
        /\ Borrows(e)' = Borrows(e) + Bit(to \in LentLabels) - Bit(from \in LentLabels)
    BY MoveCounts
  <2>2. QED BY <2>1 DEF UseBit, CreateBit, LentBit
<1>2. /\ UseBit(to) \in Int /\ UseBit(from) \in Int /\ CreateBit(to) \in Int
      /\ CreateBit(from) \in Int /\ LentBit(to) \in Int /\ LentBit(from) \in Int
      /\ Bit(wrapper'[e] = "live") \in Int /\ Bit(wrapper[e] = "live") \in Int
  BY DEF UseBit, CreateBit, LentBit, Bit
<1>3. /\ refs[e] \in Nat /\ eKept[e] \in Nat /\ driver[e] \in Nat /\ eBare[e] \in Nat
      /\ refs'[e] \in Nat /\ eKept'[e] \in Nat /\ driver'[e] \in Nat /\ eBare'[e] \in Nat
  BY DEF EffectsInv, E!TypeOK
<1>4. /\ refs[e] = eKept[e] + Uses(e)
      /\ driver[e] = eBare[e] + Bit(wrapper[e] = "live") + Creates(e) + Borrows(e)
  BY DEF EffectsInv, EffectCounts
<1>5. refs'[e] = eKept'[e] + Uses(e)'
  BY <1>1, <1>2, <1>3, <1>4
<1>6. driver'[e] = eBare'[e] + Bit(wrapper'[e] = "live") + Creates(e)' + Borrows(e)'
  BY <1>1, <1>2, <1>3, <1>4
<1>7. EffectCounts(e)'
  BY <1>5, <1>6 DEF EffectCounts
<1>8. QED BY <1>7, OtherEffects

(* A step in the middle of the life of an effect: it neither begins nor    *)
(* ends it.                                                                *)
LEMMA LifeKept ==
  ASSUME EffectsInv, NEW t \in Threads, NEW e \in Effects, NEW from, NEW to, Moves(t, e, from, to),
         from \notin CreateLabels \union EndLabels \union AnnounceLabels,
         to \notin CreateLabels \union EndLabels \union AnnounceLabels,
         wrapper'[e] = wrapper[e], refs'[e] = 0 <=> refs[e] = 0,
         heard'[e] \in {heard[e], heard[e] \union {"Command"}}
  PROVE  EffectLife(e)'
<1>1. from \notin LastLabels /\ to \notin LastLabels
  BY DEF LastLabels, EndLabels
<1>2. /\ E!In(CreateLabels, e)' = E!In(CreateLabels, e)
      /\ E!In(EndLabels, e)' = E!In(EndLabels, e)
      /\ E!In(AnnounceLabels, e)' = E!In(AnnounceLabels, e)
      /\ E!In(LastLabels, e)' = E!In(LastLabels, e)
  <2>1. /\ E!In(CreateLabels, e)' = E!In(CreateLabels, e) \ {t} /\ t \notin E!In(CreateLabels, e)
        /\ E!In(EndLabels, e)' = E!In(EndLabels, e) \ {t} /\ t \notin E!In(EndLabels, e)
        /\ E!In(AnnounceLabels, e)' = E!In(AnnounceLabels, e) \ {t} /\ t \notin E!In(AnnounceLabels, e)
        /\ E!In(LastLabels, e)' = E!In(LastLabels, e) \ {t} /\ t \notin E!In(LastLabels, e)
    BY <1>1, MoveSets
  <2>2. QED BY <2>1
<1>3. /\ "Release" \in heard'[e] <=> "Release" \in heard[e]
      /\ "EffectCreated" \in heard[e] => "EffectCreated" \in heard'[e]
  OBVIOUS
<1>4. EffectLife(e)
  BY DEF EffectsInv
<1>5. QED BY <1>2, <1>3, <1>4 DEF EffectLife

LEMMA LabelSets ==
  /\ \A label : label \in CreateLabels <=> label = "register"
  /\ \A label : label \in AnnounceLabels <=> label = "announce"
  /\ \A label : label \in EndLabels <=> label \in {"last", "lastCallback", "delete", "deleteCallback"}
  /\ \A label : label \in LastLabels <=> label \in {"last", "lastCallback"}
  /\ \A label \in {"idle", "find", "callback", "bareCallback", "lent", "emit"} :
       label \notin CreateLabels \union EndLabels \union AnnounceLabels
BY DEF CreateLabels, AnnounceLabels, EndLabels, LastLabels

(* The driver creates an effect: nobody has been busy creating it.         *)
LEMMA DriverCreatesStep ==
  ASSUME EffectsInv, NEW t \in Threads, NEW e \in Effects, E!DriverCreates(t, e)
  PROVE  EffectsInv'
<1>1. /\ E!TypeOK /\ EffectCounts(e) /\ EffectLife(e) /\ eThread[t].at = "idle"
      /\ driver[e] = 0 /\ wrapper[e] = "none" /\ heard[e] = {}
      /\ driver' = [driver EXCEPT ![e] = 1] /\ E!Call(t, "register", e)
      /\ UNCHANGED <<wrapper, refs, registered, eKept, eBare, heard>>
  BY DEF EffectsInv, E!DriverCreates, E!Fresh, E!At
<1>2. "register" \in E!Labels BY DEF E!Labels
<1>3. /\ Moves(t, e, "idle", "register")
      /\ eThread' \in [Threads -> {E!Idle} \union [at : E!Labels, effect : Effects]]
  BY <1>1, <1>2, CallMoves
<1>4. E!TypeOK' /\ driver'[e] = 1 /\ eBare[e] \in Nat
  BY <1>1, <1>3 DEF E!TypeOK
<1>5. OnlyEffect(e)
  BY <1>1 DEF OnlyEffect, E!TypeOK
<1>6. EffectLife(e)'
  <2>1. /\ Creates(e) \in Nat /\ Borrows(e) \in Nat
        /\ Creates(e) = 0 => E!In(CreateLabels, e) = {}
    BY <1>3, MoveCounts
  <2>2. E!In(CreateLabels, e) = {}
    BY <1>1, <1>4, <2>1 DEF EffectCounts, Bit
  <2>3. "register" \in CreateLabels /\ "register" \notin EndLabels /\ "idle" \notin EndLabels
    BY LabelSets
  <2>4. /\ E!In(CreateLabels, e)' = E!In(CreateLabels, e) \union {t}
        /\ E!In(EndLabels, e)' = E!In(EndLabels, e) \ {t} /\ t \notin E!In(EndLabels, e)
    BY <1>3, <2>3, MoveSets
  <2>5. E!In(CreateLabels, e)' = {t} /\ E!In(EndLabels, e)' = E!In(EndLabels, e)
    BY <2>2, <2>4
  <2>6. QED BY <1>1, <2>5 DEF EffectLife
<1>7. CreateBit("register") = 1 /\ LentBit("register") = 0 /\ UseBit("register") = 0
      /\ CreateBit("idle") = 0 /\ LentBit("idle") = 0 /\ UseBit("idle") = 0
  BY LabelBits
<1>8. /\ refs[e] \in Nat /\ eKept[e] \in Nat /\ (registered[e] <=> refs[e] > 0)
      /\ refs[e] > 0 => wrapper[e] = "live"
      /\ Bit(wrapper[e] = "live") = 0
  BY <1>1 DEF E!TypeOK, EffectCounts, Bit
<1>9. refs'[e] = refs[e] + (eKept'[e] - eKept[e]) + (UseBit("register") - UseBit("idle"))
  BY <1>1, <1>7, <1>8
<1>10. driver'[e] = driver[e] + (eBare'[e] - eBare[e])
                      + (Bit(wrapper'[e] = "live") - Bit(wrapper[e] = "live"))
                      + (CreateBit("register") - CreateBit("idle")) + (LentBit("register") - LentBit("idle"))
  BY <1>1, <1>4, <1>7, <1>8
<1>11. QED BY <1>1, <1>3, <1>4, <1>5, <1>6, <1>8, <1>9, <1>10, BalancedStep

(* A call accounts for what it uses.                                       *)
LEMMA OwnPart ==
  ASSUME EffectsInv, NEW t \in Threads, NEW e \in Effects, NEW label,
         eThread[t].at = label, eThread[t].effect = e
  PROVE  /\ label \in UseLabels => refs[e] >= eKept[e] + 1
         /\ label \in LentLabels => driver[e] >= eBare[e] + 1 /\ driver[e] >= 1
         /\ refs[e] >= eKept[e] /\ driver[e] >= eBare[e]
         /\ refs[e] \in Nat /\ eKept[e] \in Nat /\ driver[e] \in Nat /\ eBare[e] \in Nat
<1>1. \A labels : /\ Cardinality(E!In(labels, e)) \in Nat
                  /\ label \in labels => Cardinality(E!In(labels, e)) >= 1
  <2> TAKE labels
  <2>1. IsFiniteSet(E!In(labels, e)) BY WrapperConstants, FS_Subset DEF E!In
  <2>2. label \in labels => E!In(labels, e) # {} BY DEF E!In
  <2>3. /\ Cardinality(E!In(labels, e)) \in Nat
        /\ Cardinality(E!In(labels, e)) = 0 => E!In(labels, e) = {}
    BY <2>1, FS_CardinalityType, FS_EmptySet
  <2>4. QED BY <2>2, <2>3
<1>2. /\ refs[e] = eKept[e] + Uses(e)
      /\ driver[e] = eBare[e] + Bit(wrapper[e] = "live") + Creates(e) + Borrows(e)
  BY DEF EffectsInv, EffectCounts
<1>3. /\ refs[e] \in Nat /\ eKept[e] \in Nat /\ driver[e] \in Nat /\ eBare[e] \in Nat
      /\ Bit(wrapper[e] = "live") \in Nat
  BY DEF EffectsInv, E!TypeOK, Bit
<1>4. /\ Uses(e) \in Nat /\ Creates(e) \in Nat /\ Borrows(e) \in Nat
      /\ label \in UseLabels => Uses(e) >= 1
      /\ label \in LentLabels => Borrows(e) >= 1
  BY <1>1 DEF Uses, Creates, Borrows
<1>5. QED BY <1>2, <1>3, <1>4

MiddleLabels == {"idle", "find", "callback", "bareCallback", "lent", "emit"}

(* A step in the middle of the life of an effect, with its balances.       *)
LEMMA MiddleStep ==
  ASSUME EffectsInv, NEW t \in Threads, NEW e \in Effects,
         NEW from \in MiddleLabels, NEW to \in MiddleLabels,
         Moves(t, e, from, to), OnlyEffect(e), E!TypeOK',
         wrapper'[e] = wrapper[e], registered'[e] = registered[e], refs'[e] = 0 <=> refs[e] = 0,
         heard'[e] \in {heard[e], heard[e] \union {"Command"}},
         refs'[e] = refs[e] + (eKept'[e] - eKept[e]) + (UseBit(to) - UseBit(from)),
         driver'[e] = driver[e] + (eBare'[e] - eBare[e]) + (LentBit(to) - LentBit(from))
  PROVE  EffectsInv'
<1>1. /\ from \notin CreateLabels \union EndLabels \union AnnounceLabels
      /\ to \notin CreateLabels \union EndLabels \union AnnounceLabels
  BY DEF MiddleLabels, CreateLabels, EndLabels, AnnounceLabels
<1>2. EffectLife(e)'
  BY <1>1, LifeKept
<1>3. CreateBit(from) = 0 /\ CreateBit(to) = 0
  BY DEF CreateBit, Bit, MiddleLabels, CreateLabels
<1>4. /\ refs[e] \in Nat /\ refs'[e] \in Nat /\ driver[e] \in Nat /\ driver'[e] \in Nat
      /\ eBare[e] \in Nat /\ eBare'[e] \in Nat
      /\ (registered[e] <=> refs[e] > 0) /\ (refs[e] > 0 => wrapper[e] = "live")
  BY DEF EffectsInv, E!TypeOK, EffectCounts
<1>5. (registered'[e] <=> refs'[e] > 0) /\ (refs'[e] > 0 => wrapper'[e] = "live")
  BY <1>4
<1>6. LentBit(to) \in Int /\ LentBit(from) \in Int /\ Bit(wrapper[e] = "live") \in Int
  BY DEF LentBit, Bit
<1>7. driver'[e] = driver[e] + (eBare'[e] - eBare[e])
                      + (Bit(wrapper'[e] = "live") - Bit(wrapper[e] = "live"))
                      + (CreateBit(to) - CreateBit(from)) + (LentBit(to) - LentBit(from))
  BY <1>3, <1>4, <1>6
<1>8. QED BY <1>2, <1>5, <1>7, BalancedStep

(* The constructor registers the wrapper with the reference of its call.   *)
LEMMA RegisterStep ==
  ASSUME EffectsInv, NEW t \in Threads, E!Register(t)
  PROVE  EffectsInv'
<1>0. PICK e : e = eThread[t].effect
  OBVIOUS
<1>1. /\ E!TypeOK /\ eThread[t].at = "register" /\ eThread[t].effect = e
      /\ wrapper' = [wrapper EXCEPT ![e] = "live"] /\ refs' = [refs EXCEPT ![e] = 1]
      /\ registered' = [registered EXCEPT ![e] = TRUE] /\ E!Call(t, "announce", e)
      /\ UNCHANGED <<driver, eKept, eBare, heard>>
  BY <1>0 DEF EffectsInv, E!Register, E!At
<1>2. e \in Effects BY <1>1, EffectCalls
<1>3. EffectCounts(e) /\ EffectLife(e) BY <1>2 DEF EffectsInv
<1>4. "announce" \in E!Labels BY DEF E!Labels
<1>5. /\ Moves(t, e, "register", "announce")
      /\ eThread' \in [Threads -> {E!Idle} \union [at : E!Labels, effect : Effects]]
  BY <1>1, <1>2, <1>4, CallMoves
<1>6. E!TypeOK' /\ wrapper'[e] = "live" /\ refs'[e] = 1 /\ registered'[e] = TRUE
  BY <1>1, <1>2, <1>5 DEF E!TypeOK
<1>7. OnlyEffect(e)
  BY <1>1 DEF OnlyEffect, E!TypeOK
<1>8. /\ "register" \in CreateLabels /\ "register" \notin EndLabels
      /\ "announce" \in AnnounceLabels /\ "announce" \notin CreateLabels /\ "announce" \notin EndLabels
  BY LabelSets
<1>9. /\ E!In(CreateLabels, e)' = E!In(CreateLabels, e) \ {t} /\ t \in E!In(CreateLabels, e)
      /\ E!In(EndLabels, e)' = E!In(EndLabels, e) \ {t}
      /\ E!In(AnnounceLabels, e)' = E!In(AnnounceLabels, e) \union {t}
      /\ E!In(LastLabels, e) \subseteq E!In(EndLabels, e)
  BY <1>2, <1>5, <1>8, MoveSets
<1>10. /\ wrapper[e] = "none" /\ E!In(CreateLabels, e)' = {} /\ E!In(EndLabels, e) = {}
       /\ "Release" \notin heard[e]
  BY <1>3, <1>9 DEF EffectLife
<1>11. EffectLife(e)'
  BY <1>1, <1>6, <1>9, <1>10 DEF EffectLife
<1>12. /\ CreateBit("register") = 1 /\ LentBit("register") = 0 /\ UseBit("register") = 0
       /\ CreateBit("announce") = 0 /\ LentBit("announce") = 0 /\ UseBit("announce") = 1
  BY LabelBits
<1>13. /\ refs[e] = 0 /\ eKept[e] \in Nat /\ driver[e] \in Nat /\ eBare[e] \in Nat
       /\ Bit(wrapper[e] = "live") = 0 /\ Bit(wrapper'[e] = "live") = 1
  BY <1>1, <1>2, <1>3, <1>6, <1>10 DEF E!TypeOK, EffectCounts, Bit
<1>14. refs'[e] = refs[e] + (eKept'[e] - eKept[e]) + (UseBit("announce") - UseBit("register"))
  BY <1>1, <1>6, <1>12, <1>13
<1>15. driver'[e] = driver[e] + (eBare'[e] - eBare[e])
                      + (Bit(wrapper'[e] = "live") - Bit(wrapper[e] = "live"))
                      + (CreateBit("announce") - CreateBit("register"))
                      + (LentBit("announce") - LentBit("register"))
  BY <1>1, <1>12, <1>13
<1>16. QED BY <1>2, <1>5, <1>6, <1>7, <1>11, <1>14, <1>15, BalancedStep

(* EffectCreated is sent, and the game owns the reference.                 *)
LEMMA AnnounceStep ==
  ASSUME EffectsInv, NEW t \in Threads, E!Announce(t)
  PROVE  EffectsInv'
<1>0. PICK e : e = eThread[t].effect
  OBVIOUS
<1>1. /\ E!TypeOK /\ eThread[t].at = "announce" /\ eThread[t].effect = e
      /\ eKept' = [eKept EXCEPT ![e] = @ + 1] /\ E!Return(t)
      /\ heard' = [heard EXCEPT ![e] = @ \union {"EffectCreated"}]
      /\ UNCHANGED <<driver, wrapper, refs, registered, eBare>>
  BY <1>0 DEF EffectsInv, E!Announce, E!At, E!Hear
<1>2. e \in Effects BY <1>1, EffectCalls
<1>3. EffectCounts(e) /\ EffectLife(e) BY <1>2 DEF EffectsInv
<1>4. /\ Moves(t, e, "announce", "idle")
      /\ eThread' \in [Threads -> {E!Idle} \union [at : E!Labels, effect : Effects]]
  BY <1>1, <1>2, CallMoves
<1>5. /\ E!TypeOK' /\ heard'[e] = heard[e] \union {"EffectCreated"}
      /\ eKept'[e] = eKept[e] + 1 /\ eKept[e] \in Nat
  BY <1>1, <1>2, <1>4 DEF E!TypeOK
<1>6. OnlyEffect(e)
  BY <1>1 DEF OnlyEffect, E!TypeOK
<1>7. /\ "announce" \notin CreateLabels /\ "announce" \notin EndLabels /\ "announce" \notin LastLabels
      /\ "idle" \notin CreateLabels /\ "idle" \notin EndLabels /\ "idle" \notin LastLabels
  BY LabelSets
<1>8. /\ E!In(CreateLabels, e)' = E!In(CreateLabels, e) \ {t} /\ t \notin E!In(CreateLabels, e)
      /\ E!In(EndLabels, e)' = E!In(EndLabels, e) \ {t} /\ t \notin E!In(EndLabels, e)
      /\ E!In(LastLabels, e)' = E!In(LastLabels, e) \ {t} /\ t \notin E!In(LastLabels, e)
  BY <1>2, <1>4, <1>7, MoveSets
<1>9. /\ E!In(CreateLabels, e)' = E!In(CreateLabels, e) /\ E!In(EndLabels, e)' = E!In(EndLabels, e)
      /\ E!In(LastLabels, e)' = E!In(LastLabels, e)
  BY <1>8
<1>10. EffectLife(e)'
  BY <1>1, <1>3, <1>5, <1>9 DEF EffectLife
<1>11. /\ CreateBit("idle") = 0 /\ LentBit("idle") = 0 /\ UseBit("idle") = 0
       /\ CreateBit("announce") = 0 /\ LentBit("announce") = 0 /\ UseBit("announce") = 1
  BY LabelBits
<1>12. /\ refs[e] \in Nat /\ driver[e] \in Nat /\ eBare[e] \in Nat /\ Bit(wrapper[e] = "live") \in Int
       /\ (registered[e] <=> refs[e] > 0) /\ (refs[e] > 0 => wrapper[e] = "live")
  BY <1>1, <1>2, <1>3 DEF E!TypeOK, EffectCounts, Bit
<1>13. refs'[e] = refs[e] + (eKept'[e] - eKept[e]) + (UseBit("idle") - UseBit("announce"))
  BY <1>1, <1>5, <1>11, <1>12
<1>14. driver'[e] = driver[e] + (eBare'[e] - eBare[e])
                      + (Bit(wrapper'[e] = "live") - Bit(wrapper[e] = "live"))
                      + (CreateBit("idle") - CreateBit("announce"))
                      + (LentBit("idle") - LentBit("announce"))
  BY <1>1, <1>11, <1>12
<1>15. QED BY <1>1, <1>2, <1>4, <1>5, <1>6, <1>10, <1>12, <1>13, <1>14, BalancedStep

(* The game gets the effect of the driver, which no wrapper will have.     *)
LEMMA NotWrappedStep ==
  ASSUME EffectsInv, NEW t \in Threads, E!NotWrapped(t)
  PROVE  EffectsInv'
<1>0. PICK e : e = eThread[t].effect
  OBVIOUS
<1>1. /\ E!TypeOK /\ eThread[t].at = "register" /\ eThread[t].effect = e
      /\ eBare' = [eBare EXCEPT ![e] = @ + 1] /\ E!Return(t)
      /\ heard' = [heard EXCEPT ![e] = @ \union {"EffectCreated"}]
      /\ UNCHANGED <<driver, wrapper, refs, registered, eKept>>
  BY <1>0 DEF EffectsInv, E!NotWrapped, E!At, E!Hear
<1>2. e \in Effects BY <1>1, EffectCalls
<1>3. EffectCounts(e) /\ EffectLife(e) BY <1>2 DEF EffectsInv
<1>4. /\ Moves(t, e, "register", "idle")
      /\ eThread' \in [Threads -> {E!Idle} \union [at : E!Labels, effect : Effects]]
  BY <1>1, <1>2, CallMoves
<1>5. /\ E!TypeOK' /\ heard'[e] = heard[e] \union {"EffectCreated"}
      /\ eBare'[e] = eBare[e] + 1 /\ eBare[e] \in Nat
  BY <1>1, <1>2, <1>4 DEF E!TypeOK
<1>6. OnlyEffect(e)
  BY <1>1 DEF OnlyEffect, E!TypeOK
<1>7. /\ "register" \in CreateLabels /\ "register" \notin EndLabels /\ "register" \notin LastLabels
      /\ "register" \notin AnnounceLabels /\ "idle" \notin AnnounceLabels
      /\ "idle" \notin CreateLabels /\ "idle" \notin EndLabels /\ "idle" \notin LastLabels
  BY LabelSets
<1>8. /\ E!In(CreateLabels, e)' = E!In(CreateLabels, e) \ {t} /\ t \in E!In(CreateLabels, e)
      /\ E!In(EndLabels, e)' = E!In(EndLabels, e) \ {t} /\ t \notin E!In(EndLabels, e)
      /\ E!In(LastLabels, e)' = E!In(LastLabels, e) \ {t} /\ t \notin E!In(LastLabels, e)
  BY <1>2, <1>4, <1>7, MoveSets
<1>9. /\ E!In(CreateLabels, e)' = {} /\ E!In(EndLabels, e)' = E!In(EndLabels, e)
      /\ E!In(LastLabels, e)' = E!In(LastLabels, e) /\ wrapper[e] = "none"
  BY <1>3, <1>8 DEF EffectLife
<1>10. EffectLife(e)'
  BY <1>1, <1>3, <1>5, <1>9 DEF EffectLife
<1>11. /\ CreateBit("idle") = 0 /\ LentBit("idle") = 0 /\ UseBit("idle") = 0
       /\ CreateBit("register") = 1 /\ LentBit("register") = 0 /\ UseBit("register") = 0
  BY LabelBits
<1>12. /\ refs[e] \in Nat /\ driver[e] \in Nat /\ eKept[e] \in Nat /\ Bit(wrapper[e] = "live") \in Int
       /\ (registered[e] <=> refs[e] > 0) /\ (refs[e] > 0 => wrapper[e] = "live")
  BY <1>1, <1>2, <1>3 DEF E!TypeOK, EffectCounts, Bit
<1>13. refs'[e] = refs[e] + (eKept'[e] - eKept[e]) + (UseBit("idle") - UseBit("register"))
  BY <1>1, <1>11, <1>12
<1>14. driver'[e] = driver[e] + (eBare'[e] - eBare[e])
                      + (Bit(wrapper'[e] = "live") - Bit(wrapper[e] = "live"))
                      + (CreateBit("idle") - CreateBit("register"))
                      + (LentBit("idle") - LentBit("register"))
  BY <1>1, <1>5, <1>11, <1>12
<1>15. QED BY <1>1, <1>2, <1>4, <1>5, <1>6, <1>10, <1>12, <1>13, <1>14, BalancedStep

(* The driver lends an effect to an enumeration.                           *)
LEMMA DriverLendsStep ==
  ASSUME EffectsInv, NEW t \in Threads, NEW e \in Effects, E!DriverLends(t, e)
  PROVE  EffectsInv'
<1>1. /\ E!TypeOK /\ eThread[t].at = "idle" /\ driver' = [driver EXCEPT ![e] = @ + 1]
      /\ E!Call(t, "find", e)
      /\ UNCHANGED <<wrapper, refs, registered, eKept, eBare, heard>>
  BY DEF EffectsInv, E!DriverLends, E!At
<1>2. "find" \in E!Labels BY DEF E!Labels
<1>3. /\ Moves(t, e, "idle", "find")
      /\ eThread' \in [Threads -> {E!Idle} \union [at : E!Labels, effect : Effects]]
  BY <1>1, <1>2, CallMoves
<1>4. E!TypeOK' /\ driver'[e] = driver[e] + 1
  BY <1>1, <1>3 DEF E!TypeOK
<1>5. OnlyEffect(e)
  BY <1>1 DEF OnlyEffect, E!TypeOK
<1>6. UseBit("idle") = 0 /\ UseBit("find") = 0 /\ LentBit("idle") = 0 /\ LentBit("find") = 1
  BY LabelBits
<1>7. "idle" \in MiddleLabels /\ "find" \in MiddleLabels BY DEF MiddleLabels
<1>8. refs[e] \in Nat /\ eKept[e] \in Nat /\ driver[e] \in Nat /\ eBare[e] \in Nat
  BY <1>1 DEF E!TypeOK
<1>9. /\ refs'[e] = refs[e] + (eKept'[e] - eKept[e]) + (UseBit("find") - UseBit("idle"))
      /\ driver'[e] = driver[e] + (eBare'[e] - eBare[e]) + (LentBit("find") - LentBit("idle"))
  BY <1>1, <1>4, <1>6, <1>8
<1>10. QED BY <1>1, <1>3, <1>4, <1>5, <1>7, <1>9, MiddleStep

(* find_and_add_ref: only a wrapper that has references is in the registry. *)
LEMMA FindAndAddRefStep ==
  ASSUME EffectsInv, NEW t \in Threads, E!FindAndAddRef(t)
  PROVE  EffectsInv'
<1>0. PICK e : e = eThread[t].effect
  OBVIOUS
<1>1. /\ E!TypeOK /\ eThread[t].at = "find" /\ eThread[t].effect = e
      /\ UNCHANGED <<driver, wrapper, registered, eKept, eBare, heard>>
  BY <1>0 DEF EffectsInv, E!FindAndAddRef, E!At
<1>2. e \in Effects BY <1>1, EffectCalls
<1>3. /\ refs[e] \in Nat /\ eKept[e] \in Nat /\ driver[e] \in Nat /\ eBare[e] \in Nat
  BY <1>2 DEF EffectsInv, E!TypeOK
<1>3a. eKept' = eKept /\ driver' = driver /\ eBare' = eBare BY <1>1
<1>4. /\ UseBit("find") = 0 /\ UseBit("callback") = 1 /\ UseBit("bareCallback") = 0
      /\ LentBit("find") = 1 /\ LentBit("callback") = 1 /\ LentBit("bareCallback") = 1
  BY LabelBits
<1>5. "find" \in MiddleLabels /\ "callback" \in MiddleLabels /\ "bareCallback" \in MiddleLabels
  BY DEF MiddleLabels
<1>6. "callback" \in E!Labels /\ "bareCallback" \in E!Labels BY DEF E!Labels
<1>7. CASE registered[e]
  <2>1. refs' = [refs EXCEPT ![e] = @ + 1] /\ E!Call(t, "callback", e)
    BY <1>0, <1>7, Zenon DEF E!FindAndAddRef, E!Found
  <2>2. /\ Moves(t, e, "find", "callback")
        /\ eThread' \in [Threads -> {E!Idle} \union [at : E!Labels, effect : Effects]]
    BY <1>1, <1>2, <1>6, <2>1, CallMoves
  <2>3. E!TypeOK' /\ refs'[e] = refs[e] + 1
    BY <1>1, <1>2, <2>1, <2>2 DEF E!TypeOK
  <2>4. OnlyEffect(e)
    BY <1>1, <2>1 DEF OnlyEffect, E!TypeOK
  <2>5. /\ refs'[e] = refs[e] + (eKept'[e] - eKept[e]) + (UseBit("callback") - UseBit("find"))
        /\ driver'[e] = driver[e] + (eBare'[e] - eBare[e]) + (LentBit("callback") - LentBit("find"))
    BY <1>2, <1>3, <1>3a, <1>4, <2>3
  <2>6. refs[e] > 0
    BY <1>2, <1>7 DEF EffectsInv, EffectCounts
  <2>7. refs'[e] = 0 <=> refs[e] = 0
    BY <1>3, <2>3, <2>6
  <2>8. QED BY <1>1, <1>2, <1>5, <2>2, <2>3, <2>4, <2>5, <2>7, MiddleStep
<1>8. CASE ~registered[e]
  <2>1. refs' = refs /\ E!Call(t, "bareCallback", e)
    BY <1>0, <1>8, Zenon DEF E!FindAndAddRef, E!Found
  <2>2. /\ Moves(t, e, "find", "bareCallback")
        /\ eThread' \in [Threads -> {E!Idle} \union [at : E!Labels, effect : Effects]]
    BY <1>1, <1>2, <1>6, <2>1, CallMoves
  <2>3. E!TypeOK'
    BY <1>1, <2>1, <2>2 DEF E!TypeOK
  <2>4. OnlyEffect(e)
    BY <1>1, <2>1 DEF OnlyEffect, E!TypeOK
  <2>5. /\ refs'[e] = refs[e] + (eKept'[e] - eKept[e]) + (UseBit("bareCallback") - UseBit("find"))
        /\ driver'[e] = driver[e] + (eBare'[e] - eBare[e])
                        + (LentBit("bareCallback") - LentBit("find"))
    BY <1>1, <1>3, <1>4, <2>1
  <2>6. QED BY <1>1, <1>2, <1>5, <2>1, <2>2, <2>3, <2>4, <2>5, MiddleStep
<1>9. QED BY <1>7, <1>8

(* The driver takes back what it lent: its count includes that reference.  *)
LEMMA DriverTakesBackStep ==
  ASSUME EffectsInv, NEW t \in Threads, E!DriverTakesBack(t)
  PROVE  EffectsInv'
<1>0. PICK e : e = eThread[t].effect
  OBVIOUS
<1>1. /\ E!TypeOK /\ eThread[t].at = "lent" /\ eThread[t].effect = e
      /\ driver' = [driver EXCEPT ![e] = @ - 1] /\ E!Return(t)
      /\ UNCHANGED <<wrapper, refs, registered, eKept, eBare, heard>>
  BY <1>0 DEF EffectsInv, E!DriverTakesBack, E!At
<1>2. e \in Effects BY <1>1, EffectCalls
<1>3. "lent" \in LentLabels BY DEF LentLabels
<1>4. /\ driver[e] >= 1 /\ refs[e] \in Nat /\ eKept[e] \in Nat /\ driver[e] \in Nat /\ eBare[e] \in Nat
  BY <1>1, <1>2, <1>3, OwnPart
<1>5. /\ Moves(t, e, "lent", "idle")
      /\ eThread' \in [Threads -> {E!Idle} \union [at : E!Labels, effect : Effects]]
  BY <1>1, <1>2, CallMoves
<1>6. driver'[e] = driver[e] - 1 /\ driver[e] - 1 \in Nat
  BY <1>1, <1>2, <1>4 DEF E!TypeOK
<1>7. driver' \in [Effects -> Nat]
  BY <1>1, <1>6 DEF E!TypeOK
<1>8. E!TypeOK' /\ OnlyEffect(e)
  BY <1>1, <1>5, <1>7 DEF E!TypeOK, OnlyEffect
<1>9. UseBit("lent") = 0 /\ UseBit("idle") = 0 /\ LentBit("lent") = 1 /\ LentBit("idle") = 0
  BY LabelBits
<1>10. /\ refs'[e] = refs[e] + (eKept'[e] - eKept[e]) + (UseBit("idle") - UseBit("lent"))
       /\ driver'[e] = driver[e] + (eBare'[e] - eBare[e]) + (LentBit("idle") - LentBit("lent"))
  BY <1>1, <1>4, <1>6, <1>9
<1>11. "lent" \in MiddleLabels /\ "idle" \in MiddleLabels BY DEF MiddleLabels
<1>12. QED BY <1>1, <1>2, <1>5, <1>8, <1>10, <1>11, MiddleStep

(* AddRef, by the owner of a reference or inside the callback.             *)
LEMMA AddRefEffectStep ==
  ASSUME EffectsInv, NEW t \in Threads, NEW e \in Effects, E!AddRef(t, e)
  PROVE  EffectsInv'
<1>0. PICK label : label = eThread[t].at
  OBVIOUS
<1>1. /\ E!TypeOK /\ eThread[t].at = label
      /\ refs' = [refs EXCEPT ![e] = @ + 1] /\ eKept' = [eKept EXCEPT ![e] = @ + 1]
      /\ UNCHANGED <<driver, wrapper, registered, eBare, eThread, heard>>
      /\ \/ label = "idle" /\ eKept[e] > 0
         \/ label = "callback" /\ eThread[t].effect = e
  BY <1>0 DEF EffectsInv, E!AddRef, E!At
<1>2. /\ Moves(t, e, label, label)
      /\ eThread' \in [Threads -> {E!Idle} \union [at : E!Labels, effect : Effects]]
  BY <1>1, CallMoves
<1>3. E!TypeOK' /\ refs'[e] = refs[e] + 1 /\ eKept'[e] = eKept[e] + 1
  BY <1>1, <1>2 DEF E!TypeOK
<1>4. OnlyEffect(e)
  BY <1>1 DEF OnlyEffect, E!TypeOK
<1>5. refs[e] \in Nat /\ eKept[e] \in Nat /\ driver[e] \in Nat /\ eBare[e] \in Nat
  BY <1>1 DEF E!TypeOK
<1>6. refs[e] > 0
  <2>1. CASE label = "idle" /\ eKept[e] > 0
    <3>1. refs[e] = eKept[e] + Uses(e) /\ Uses(e) \in Nat
      BY <1>2, MoveCounts DEF EffectsInv, EffectCounts
    <3>2. QED BY <1>5, <2>1, <3>1
  <2>2. CASE label = "callback" /\ eThread[t].effect = e
    <3>1. label \in UseLabels BY <2>2 DEF UseLabels
    <3>2. QED BY <1>1, <1>5, <2>2, <3>1, OwnPart
  <2>3. QED BY <1>1, <2>1, <2>2
<1>7. label \in MiddleLabels BY <1>1 DEF MiddleLabels
<1>8. UseBit(label) \in Int /\ LentBit(label) \in Int BY DEF UseBit, LentBit, Bit
<1>9. /\ refs'[e] = refs[e] + (eKept'[e] - eKept[e]) + (UseBit(label) - UseBit(label))
      /\ driver'[e] = driver[e] + (eBare'[e] - eBare[e]) + (LentBit(label) - LentBit(label))
      /\ refs'[e] = 0 <=> refs[e] = 0
  BY <1>1, <1>3, <1>5, <1>6, <1>8
<1>10. QED BY <1>1, <1>2, <1>3, <1>4, <1>7, <1>9, MiddleStep

(* References of the game to the effect of the driver, and of the driver.  *)
BareBy(e, n) ==
  /\ eBare' = [eBare EXCEPT ![e] = eBare[e] + n]
  /\ driver' = [driver EXCEPT ![e] = driver[e] + n]
  /\ UNCHANGED <<wrapper, refs, registered, eKept, eThread, heard>>

LEMMA BareEffectStep ==
  ASSUME EffectsInv, NEW t \in Threads, NEW e \in Effects, NEW label \in MiddleLabels,
         eThread[t].at = label, label = "idle" \/ eThread[t].effect = e, NEW n \in Int,
         eBare[e] + n \in Nat, BareBy(e, n)
  PROVE  EffectsInv'
<1>1. /\ E!TypeOK /\ refs[e] \in Nat /\ eKept[e] \in Nat /\ driver[e] \in Nat /\ eBare[e] \in Nat
  BY DEF EffectsInv, E!TypeOK
<1>2. /\ Moves(t, e, label, label)
      /\ eThread' \in [Threads -> {E!Idle} \union [at : E!Labels, effect : Effects]]
  BY <1>1, CallMoves DEF BareBy
<1>3. driver[e] + n \in Nat
  <2>1. /\ driver[e] = eBare[e] + Bit(wrapper[e] = "live") + Creates(e) + Borrows(e)
        /\ Creates(e) \in Nat /\ Borrows(e) \in Nat
    BY <1>2, MoveCounts DEF EffectsInv, EffectCounts
  <2>2. Bit(wrapper[e] = "live") \in Nat BY DEF Bit
  <2>3. QED BY <1>1, <2>1, <2>2
<1>4. /\ driver' \in [Effects -> Nat] /\ driver'[e] = driver[e] + n
      /\ eBare' \in [Effects -> Nat] /\ eBare'[e] = eBare[e] + n
  BY <1>1, <1>3 DEF E!TypeOK, BareBy
<1>5. E!TypeOK' /\ OnlyEffect(e)
  BY <1>1, <1>2, <1>4 DEF E!TypeOK, OnlyEffect, BareBy
<1>6. UseBit(label) \in Int /\ LentBit(label) \in Int BY DEF UseBit, LentBit, Bit
<1>7. /\ refs'[e] = refs[e] + (eKept'[e] - eKept[e]) + (UseBit(label) - UseBit(label))
      /\ driver'[e] = driver[e] + (eBare'[e] - eBare[e]) + (LentBit(label) - LentBit(label))
  BY <1>1, <1>4, <1>6 DEF BareBy
<1>8. wrapper' = wrapper /\ registered' = registered /\ refs' = refs /\ heard' = heard
  BY DEF BareBy
<1>9. QED BY <1>2, <1>5, <1>7, <1>8, MiddleStep

(* QueryInterface is answered by the driver's effect.                      *)
LEMMA QueryBareEffectStep ==
  ASSUME EffectsInv, NEW t \in Threads, NEW e \in Effects, E!QueryBare(t, e)
  PROVE  EffectsInv'
<1>1. eThread[t].at = "idle" /\ BareBy(e, 1)
  BY DEF E!QueryBare, E!At, BareBy
<1>2. "idle" \in MiddleLabels BY DEF MiddleLabels
<1>3. eBare[e] + 1 \in Nat BY DEF EffectsInv, E!TypeOK
<1>4. QED BY <1>1, <1>2, <1>3, BareEffectStep

(* The callback keeps an effect that came without a wrapper ...            *)
LEMMA KeepBareEffectStep ==
  ASSUME EffectsInv, NEW t \in Threads, E!KeepBare(t)
  PROVE  EffectsInv'
<1>0. PICK e : e = eThread[t].effect
  OBVIOUS
<1>1. eThread[t].at = "bareCallback" /\ BareBy(e, 1)
  BY <1>0 DEF E!KeepBare, E!At, BareBy
<1>2. "bareCallback" \in MiddleLabels BY DEF MiddleLabels
<1>3. e \in Effects BY <1>0, <1>1, EffectCalls DEF EffectsInv
<1>4. eBare[e] + 1 \in Nat BY <1>3 DEF EffectsInv, E!TypeOK
<1>5. QED BY <1>0, <1>1, <1>2, <1>3, <1>4, BareEffectStep

(* ... and the game releases it.                                           *)
LEMMA ReleaseBareEffectStep ==
  ASSUME EffectsInv, NEW t \in Threads, NEW e \in Effects, E!ReleaseBare(t, e)
  PROVE  EffectsInv'
<1>1. eThread[t].at = "idle" /\ eBare[e] > 0 /\ eBare[e] \in Nat /\ driver[e] \in Nat
  BY DEF E!ReleaseBare, E!At, EffectsInv, E!TypeOK
<1>2. eBare[e] - 1 = eBare[e] + (-1) /\ driver[e] - 1 = driver[e] + (-1) /\ eBare[e] + (-1) \in Nat
  BY <1>1
<1>3. BareBy(e, -1)
  BY <1>2 DEF E!ReleaseBare, BareBy
<1>4. "idle" \in MiddleLabels BY DEF MiddleLabels
<1>5. QED BY <1>1, <1>2, <1>3, <1>4, BareEffectStep

(* A command uses a reference of the game while it is under way.           *)
LEMMA CommandStep ==
  ASSUME EffectsInv, NEW t \in Threads, NEW e \in Effects, E!Command(t, e)
  PROVE  EffectsInv'
<1>1. /\ E!TypeOK /\ eThread[t].at = "idle" /\ eKept[e] > 0
      /\ eKept' = [eKept EXCEPT ![e] = @ - 1] /\ E!Call(t, "emit", e)
      /\ UNCHANGED <<driver, wrapper, refs, registered, eBare, heard>>
  BY DEF EffectsInv, E!Command, E!At
<1>2. "emit" \in E!Labels BY DEF E!Labels
<1>3. /\ Moves(t, e, "idle", "emit")
      /\ eThread' \in [Threads -> {E!Idle} \union [at : E!Labels, effect : Effects]]
  BY <1>1, <1>2, CallMoves
<1>4. refs[e] \in Nat /\ eKept[e] \in Nat /\ driver[e] \in Nat /\ eBare[e] \in Nat
  BY <1>1 DEF E!TypeOK
<1>5. eKept'[e] = eKept[e] - 1 /\ eKept' \in [Effects -> Nat]
  BY <1>1, <1>4 DEF E!TypeOK
<1>6. E!TypeOK' /\ OnlyEffect(e)
  BY <1>1, <1>3, <1>5 DEF E!TypeOK, OnlyEffect
<1>7. UseBit("idle") = 0 /\ UseBit("emit") = 1 /\ LentBit("idle") = 0 /\ LentBit("emit") = 0
  BY LabelBits
<1>8. /\ refs'[e] = refs[e] + (eKept'[e] - eKept[e]) + (UseBit("emit") - UseBit("idle"))
      /\ driver'[e] = driver[e] + (eBare'[e] - eBare[e]) + (LentBit("emit") - LentBit("idle"))
  BY <1>1, <1>4, <1>5, <1>7
<1>9. "idle" \in MiddleLabels /\ "emit" \in MiddleLabels BY DEF MiddleLabels
<1>10. QED BY <1>1, <1>3, <1>6, <1>8, <1>9, MiddleStep

LEMMA EmitCommandStep ==
  ASSUME EffectsInv, NEW t \in Threads, E!EmitCommand(t)
  PROVE  EffectsInv'
<1>0. PICK e : e = eThread[t].effect
  OBVIOUS
<1>1. /\ E!TypeOK /\ eThread[t].at = "emit" /\ eThread[t].effect = e
      /\ eKept' = [eKept EXCEPT ![e] = @ + 1] /\ E!Return(t)
      /\ heard' = [heard EXCEPT ![e] = @ \union {"Command"}]
      /\ UNCHANGED <<driver, wrapper, refs, registered, eBare>>
  BY <1>0 DEF EffectsInv, E!EmitCommand, E!At, E!Hear
<1>2. e \in Effects BY <1>1, EffectCalls
<1>3. /\ Moves(t, e, "emit", "idle")
      /\ eThread' \in [Threads -> {E!Idle} \union [at : E!Labels, effect : Effects]]
  BY <1>1, <1>2, CallMoves
<1>4. refs[e] \in Nat /\ eKept[e] \in Nat /\ driver[e] \in Nat /\ eBare[e] \in Nat
  BY <1>1, <1>2 DEF E!TypeOK
<1>5. /\ E!TypeOK' /\ eKept'[e] = eKept[e] + 1 /\ heard'[e] = heard[e] \union {"Command"}
  BY <1>1, <1>2, <1>3 DEF E!TypeOK
<1>6. OnlyEffect(e)
  BY <1>1 DEF E!TypeOK, OnlyEffect
<1>7. UseBit("idle") = 0 /\ UseBit("emit") = 1 /\ LentBit("idle") = 0 /\ LentBit("emit") = 0
  BY LabelBits
<1>8. /\ refs'[e] = refs[e] + (eKept'[e] - eKept[e]) + (UseBit("idle") - UseBit("emit"))
      /\ driver'[e] = driver[e] + (eBare'[e] - eBare[e]) + (LentBit("idle") - LentBit("emit"))
  BY <1>1, <1>4, <1>5, <1>7
<1>9. "idle" \in MiddleLabels /\ "emit" \in MiddleLabels BY DEF MiddleLabels
<1>10. QED BY <1>1, <1>2, <1>3, <1>5, <1>6, <1>8, <1>9, MiddleStep

(* What Release does to the count and to the registry.                     *)
LEMMA UnrefMeans ==
  ASSUME EffectsInv, NEW e \in Effects, E!Unref(e), refs[e] >= 1
  PROVE  /\ refs' \in [Effects -> Nat] /\ refs'[e] = refs[e] - 1
         /\ registered' \in [Effects -> BOOLEAN] /\ (registered'[e] <=> refs'[e] > 0)
         /\ \A f \in Effects \ {e} : refs'[f] = refs[f] /\ registered'[f] = registered[f]
         /\ refs[e] # 1 => registered'[e] = registered[e]
<1>1. /\ refs \in [Effects -> Nat] /\ registered \in [Effects -> BOOLEAN]
      /\ registered[e] <=> refs[e] > 0
  BY DEF EffectsInv, E!TypeOK, EffectCounts
<1>2. refs' = [refs EXCEPT ![e] = @ - 1] BY DEF E!Unref
<1>3. refs[e] - 1 \in Nat BY <1>1
<1>4. /\ refs' \in [Effects -> Nat] /\ refs'[e] = refs[e] - 1
      /\ \A f \in Effects \ {e} : refs'[f] = refs[f]
  BY <1>1, <1>2, <1>3
<1>5. PICK stays \in BOOLEAN : stays = E!StaysRegistered(e)
  BY <1>1 DEF E!StaysRegistered
<1>6. registered' = [registered EXCEPT ![e] = stays]
  BY <1>5 DEF E!Unref
<1>7. /\ registered' \in [Effects -> BOOLEAN] /\ registered'[e] = stays
      /\ \A f \in Effects \ {e} : registered'[f] = registered[f]
  BY <1>1, <1>6
<1>8. refs[e] # 1 => stays = registered[e]
  BY <1>1, <1>5 DEF E!StaysRegistered
<1>9. refs[e] = 1 => stays = FALSE
  BY <1>5 DEF E!StaysRegistered
<1>10. refs[e] # 1 => refs'[e] > 0
  BY <1>1, <1>4
<1>11. refs[e] = 1 => ~(refs'[e] > 0)
  BY <1>1, <1>4
<1>12. refs[e] > 0 BY <1>1
<1>13. QED BY <1>1, <1>4, <1>7, <1>8, <1>9, <1>10, <1>11, <1>12

(* The last reference goes: the call that took it will end the wrapper.    *)
LEMMA LastReference ==
  ASSUME EffectsInv, NEW t \in Threads, NEW e \in Effects,
         NEW from \in {"idle", "callback"}, NEW to \in {"last", "lastCallback"},
         Moves(t, e, from, to), OnlyEffect(e), E!TypeOK', refs[e] = 1, refs'[e] = 0,
         ~registered'[e], wrapper'[e] = wrapper[e], heard'[e] = heard[e], eBare'[e] = eBare[e],
         driver'[e] = driver[e], LentBit(to) = LentBit(from), eKept'[e] = eKept[e] + UseBit(from) - 1
  PROVE  EffectsInv'
<1>1. EffectCounts(e) /\ EffectLife(e) /\ E!TypeOK BY DEF EffectsInv
<1>2. /\ from \notin CreateLabels /\ from \notin EndLabels /\ from \notin AnnounceLabels
      /\ to \notin CreateLabels /\ to \in EndLabels /\ to \notin AnnounceLabels /\ to \in LastLabels
  BY DEF CreateLabels, EndLabels, AnnounceLabels, LastLabels
<1>3. /\ E!In(CreateLabels, e)' = E!In(CreateLabels, e) \ {t} /\ t \notin E!In(CreateLabels, e)
      /\ E!In(EndLabels, e)' = E!In(EndLabels, e) \union {t}
      /\ E!In(AnnounceLabels, e)' = E!In(AnnounceLabels, e) \ {t} /\ t \notin E!In(AnnounceLabels, e)
  BY <1>2, MoveSets
<1>4. E!In(EndLabels, e) = {} /\ "Release" \notin heard[e] /\ wrapper[e] = "live"
  BY <1>1 DEF EffectLife, EffectCounts
<1>5. /\ E!In(CreateLabels, e)' = E!In(CreateLabels, e) /\ E!In(EndLabels, e)' = {t}
      /\ E!In(AnnounceLabels, e)' = E!In(AnnounceLabels, e)
  BY <1>3, <1>4
<1>6. EffectLife(e)'
  BY <1>1, <1>4, <1>5 DEF EffectLife
<1>7. /\ UseBit(to) = 0 /\ CreateBit(to) = 0 /\ CreateBit(from) = 0
  BY LabelBits
<1>8. /\ UseBit(from) \in Int /\ LentBit(from) \in Int /\ LentBit(to) \in Int
      /\ Bit(wrapper[e] = "live") \in Int
  BY DEF UseBit, LentBit, Bit
<1>9. eKept[e] \in Nat /\ driver[e] \in Nat /\ eBare[e] \in Nat
  BY <1>1 DEF E!TypeOK
<1>10. /\ refs'[e] = refs[e] + (eKept'[e] - eKept[e]) + (UseBit(to) - UseBit(from))
       /\ driver'[e] = driver[e] + (eBare'[e] - eBare[e])
                      + (Bit(wrapper'[e] = "live") - Bit(wrapper[e] = "live"))
                      + (CreateBit(to) - CreateBit(from)) + (LentBit(to) - LentBit(from))
  BY <1>7, <1>8, <1>9
<1>11. QED BY <1>6, <1>10, BalancedStep

LEMMA ReleaseEffectStep ==
  ASSUME EffectsInv, NEW t \in Threads, NEW e \in Effects, E!Release(t, e)
  PROVE  EffectsInv'
<1>1. /\ E!TypeOK /\ eThread[t].at = "idle" /\ eKept[e] > 0
      /\ eKept' = [eKept EXCEPT ![e] = @ - 1] /\ E!Unref(e)
      /\ UNCHANGED <<driver, wrapper, eBare, heard>>
  BY DEF EffectsInv, E!Release, E!At
<1>2. refs[e] \in Nat /\ eKept[e] \in Nat /\ driver[e] \in Nat /\ eBare[e] \in Nat
  BY <1>1 DEF E!TypeOK
<1>4. eKept' \in [Effects -> Nat] /\ eKept'[e] = eKept[e] - 1
      /\ \A f \in Effects \ {e} : eKept'[f] = eKept[f]
  <2>1. eKept[e] - 1 \in Nat BY <1>1, <1>2
  <2>2. QED BY <1>1, <2>1 DEF E!TypeOK
<1>5. UseBit("idle") = 0 /\ LentBit("idle") = 0 /\ UseBit("last") = 0 /\ LentBit("last") = 0
  BY LabelBits
<1>6. CASE refs[e] = 1
  <2>1. E!Call(t, "last", e) BY <1>6, Zenon DEF E!Release
  <2>2. "last" \in E!Labels BY DEF E!Labels
  <2>3. /\ Moves(t, e, "idle", "last")
        /\ eThread' \in [Threads -> {E!Idle} \union [at : E!Labels, effect : Effects]]
    BY <1>1, <2>1, <2>2, CallMoves
  <2>4. /\ refs' \in [Effects -> Nat] /\ refs'[e] = refs[e] - 1
        /\ registered' \in [Effects -> BOOLEAN] /\ (registered'[e] <=> refs'[e] > 0)
        /\ \A f \in Effects \ {e} : refs'[f] = refs[f] /\ registered'[f] = registered[f]
    BY <1>1, <1>6, UnrefMeans
  <2>5. E!TypeOK' /\ OnlyEffect(e)
    BY <1>1, <1>4, <2>3, <2>4 DEF E!TypeOK, OnlyEffect
  <2>6. refs'[e] = 0 BY <1>6, <2>4
  <2>7. ~registered'[e] BY <2>4, <2>6
  <2>8. LentBit("last") = LentBit("idle") /\ eKept'[e] = eKept[e] + UseBit("idle") - 1
    BY <1>2, <1>4, <1>5
  <2>9. QED BY <1>1, <1>6, <2>3, <2>5, <2>6, <2>7, <2>8, LastReference
<1>7. CASE refs[e] # 1
  <2>1. E!Return(t) BY <1>7, Zenon DEF E!Release
  <2>2. /\ Moves(t, e, "idle", "idle")
        /\ eThread' \in [Threads -> {E!Idle} \union [at : E!Labels, effect : Effects]]
    BY <1>1, <2>1, CallMoves
  <2>3. refs[e] = eKept[e] + Uses(e) /\ Uses(e) \in Nat
    BY <2>2, MoveCounts DEF EffectsInv, EffectCounts
  <2>4. refs[e] > 1 BY <1>1, <1>2, <1>7, <2>3
  <2>5. refs[e] >= 1 BY <1>2, <2>4
  <2>6. /\ refs' \in [Effects -> Nat] /\ refs'[e] = refs[e] - 1
        /\ registered' \in [Effects -> BOOLEAN] /\ registered'[e] = registered[e]
        /\ \A f \in Effects \ {e} : refs'[f] = refs[f] /\ registered'[f] = registered[f]
    BY <1>1, <1>7, <2>5, UnrefMeans
  <2>7. E!TypeOK' /\ OnlyEffect(e)
    BY <1>1, <1>4, <2>2, <2>6 DEF E!TypeOK, OnlyEffect
  <2>8. /\ refs'[e] = refs[e] + (eKept'[e] - eKept[e]) + (UseBit("idle") - UseBit("idle"))
        /\ driver'[e] = driver[e] + (eBare'[e] - eBare[e]) + (LentBit("idle") - LentBit("idle"))
        /\ refs'[e] = 0 <=> refs[e] = 0
    BY <1>1, <1>2, <1>4, <1>5, <2>4, <2>6
  <2>9. "idle" \in MiddleLabels BY DEF MiddleLabels
  <2>10. QED BY <1>1, <2>2, <2>6, <2>7, <2>8, <2>9, MiddleStep
<1>8. QED BY <1>6, <1>7

(* The callback ends: its temporary reference is released.                 *)
LEMMA CallbackEffectStep ==
  ASSUME EffectsInv, NEW t \in Threads, E!CallbackReturns(t)
  PROVE  EffectsInv'
<1>0. PICK e : e = eThread[t].effect
  OBVIOUS
<1>1. /\ E!TypeOK /\ eThread[t].at \in {"callback", "bareCallback"} /\ eThread[t].effect = e
      /\ UNCHANGED <<driver, wrapper, eKept, eBare, heard>>
  BY <1>0 DEF EffectsInv, E!CallbackReturns, E!At
<1>2. e \in Effects BY <1>1, EffectCalls
<1>3. /\ refs[e] \in Nat /\ eKept[e] \in Nat /\ driver[e] \in Nat /\ eBare[e] \in Nat
      /\ eKept' = eKept /\ driver' = driver /\ eBare' = eBare
  BY <1>1, <1>2 DEF E!TypeOK
<1>4. /\ UseBit("callback") = 1 /\ UseBit("bareCallback") = 0 /\ UseBit("lent") = 0
      /\ LentBit("callback") = 1 /\ LentBit("bareCallback") = 1 /\ LentBit("lent") = 1
      /\ LentBit("lastCallback") = 1
  BY LabelBits
<1>5. "callback" \in MiddleLabels /\ "bareCallback" \in MiddleLabels /\ "lent" \in MiddleLabels
  BY DEF MiddleLabels
<1>6. "lent" \in E!Labels /\ "lastCallback" \in E!Labels BY DEF E!Labels
<1>7. CASE eThread[t].at = "bareCallback"
  <2>1. E!Call(t, "lent", e) /\ refs' = refs /\ registered' = registered
    BY <1>0, <1>7 DEF E!CallbackReturns, E!At
  <2>2. /\ Moves(t, e, "bareCallback", "lent")
        /\ eThread' \in [Threads -> {E!Idle} \union [at : E!Labels, effect : Effects]]
    BY <1>1, <1>2, <1>6, <1>7, <2>1, CallMoves
  <2>3. E!TypeOK' /\ OnlyEffect(e)
    BY <1>1, <2>1, <2>2 DEF E!TypeOK, OnlyEffect
  <2>4. /\ refs'[e] = refs[e] + (eKept'[e] - eKept[e]) + (UseBit("lent") - UseBit("bareCallback"))
        /\ driver'[e] = driver[e] + (eBare'[e] - eBare[e]) + (LentBit("lent") - LentBit("bareCallback"))
    BY <1>3, <1>4, <2>1
  <2>5. QED BY <1>1, <1>2, <1>5, <2>1, <2>2, <2>3, <2>4, MiddleStep
<1>8. CASE eThread[t].at = "callback"
  <2>1. E!Unref(e)
    BY <1>0, <1>8 DEF E!CallbackReturns, E!At
  <2>2. "callback" \in UseLabels BY DEF UseLabels
  <2>3. refs[e] >= eKept[e] + 1 BY <1>1, <1>2, <1>8, <2>2, OwnPart
  <2>4. refs[e] >= 1 BY <1>3, <2>3
  <2>5. /\ refs' \in [Effects -> Nat] /\ refs'[e] = refs[e] - 1
        /\ registered' \in [Effects -> BOOLEAN] /\ (registered'[e] <=> refs'[e] > 0)
        /\ \A f \in Effects \ {e} : refs'[f] = refs[f] /\ registered'[f] = registered[f]
        /\ refs[e] # 1 => registered'[e] = registered[e]
    BY <1>2, <2>1, <2>4, UnrefMeans
  <2>6. OnlyEffect(e)
    BY <1>1, <2>5 DEF OnlyEffect
  <2>7. CASE refs[e] = 1
    <3>1. E!Call(t, "lastCallback", e)
      BY <1>0, <1>8, <2>7, Zenon DEF E!CallbackReturns, E!At
    <3>2. /\ Moves(t, e, "callback", "lastCallback")
          /\ eThread' \in [Threads -> {E!Idle} \union [at : E!Labels, effect : Effects]]
      BY <1>1, <1>2, <1>6, <1>8, <3>1, CallMoves
    <3>3. E!TypeOK' BY <1>1, <2>5, <3>2 DEF E!TypeOK
    <3>4. refs'[e] = 0 BY <2>5, <2>7
    <3>5. ~registered'[e] BY <2>5, <3>4
    <3>6. LentBit("lastCallback") = LentBit("callback") /\ eKept'[e] = eKept[e] + UseBit("callback") - 1
      BY <1>3, <1>4
    <3>7. QED BY <1>1, <1>2, <1>3, <2>6, <2>7, <3>2, <3>3, <3>4, <3>5, <3>6, LastReference
  <2>8. CASE refs[e] # 1
    <3>1. E!Call(t, "lent", e)
      BY <1>0, <1>8, <2>8, Zenon DEF E!CallbackReturns, E!At
    <3>2. /\ Moves(t, e, "callback", "lent")
          /\ eThread' \in [Threads -> {E!Idle} \union [at : E!Labels, effect : Effects]]
      BY <1>1, <1>2, <1>6, <1>8, <3>1, CallMoves
    <3>3. E!TypeOK' BY <1>1, <2>5, <3>2 DEF E!TypeOK
    <3>4. registered'[e] = registered[e] BY <2>5, <2>8
    <3>5. refs'[e] = refs[e] - 1 BY <2>5
    <3>6. /\ refs'[e] = refs[e] + (eKept'[e] - eKept[e]) + (UseBit("lent") - UseBit("callback"))
          /\ driver'[e] = driver[e] + (eBare'[e] - eBare[e]) + (LentBit("lent") - LentBit("callback"))
          /\ refs'[e] = 0 <=> refs[e] = 0
      BY <1>3, <1>4, <2>4, <2>8, <3>5
    <3>7. QED BY <1>1, <1>2, <1>5, <2>6, <3>2, <3>3, <3>4, <3>6, MiddleStep
  <2>9. QED BY <2>7, <2>8
<1>9. QED BY <1>1, <1>7, <1>8

(* The Release command is sent when nobody else can speak of the effect.   *)
LEMMA EmitReleaseStep ==
  ASSUME EffectsInv, NEW t \in Threads, E!EmitRelease(t)
  PROVE  EffectsInv'
<1>0. PICK e : e = eThread[t].effect
  OBVIOUS
<1>1. PICK from \in {"last", "lastCallback"} : eThread[t].at = from
  BY DEF E!EmitRelease, E!At
<1>2. PICK to \in {"delete", "deleteCallback"} :
        /\ E!Call(t, to, e) /\ (from = "last" <=> to = "delete")
  <2>1. CASE from = "last"
    <3>1. E!Call(t, "delete", e) BY <1>0, <1>1, <2>1, Zenon DEF E!EmitRelease, E!At
    <3>2. QED BY <2>1, <3>1
  <2>2. CASE from = "lastCallback"
    <3>0. eThread[t].at # "last" BY <1>1, <2>2
    <3>1. E!Call(t, "deleteCallback", e) BY <1>0, <3>0, Zenon DEF E!EmitRelease, E!At
    <3>2. QED BY <2>2, <3>1
  <2>3. QED BY <2>1, <2>2
<1>3. /\ E!TypeOK /\ eThread[t].effect = e
      /\ heard' = [heard EXCEPT ![e] = @ \union {"Release"}]
      /\ UNCHANGED <<driver, wrapper, refs, registered, eKept, eBare>>
  BY <1>0 DEF EffectsInv, E!EmitRelease, E!Hear
<1>4. e \in Effects /\ to \in E!Labels BY <1>1, <1>3, EffectCalls DEF E!Labels
<1>5. EffectCounts(e) /\ EffectLife(e) BY <1>4 DEF EffectsInv
<1>6. /\ Moves(t, e, from, to)
      /\ eThread' \in [Threads -> {E!Idle} \union [at : E!Labels, effect : Effects]]
  BY <1>1, <1>2, <1>3, <1>4, CallMoves
<1>7. E!TypeOK' /\ heard'[e] = heard[e] \union {"Release"}
  BY <1>3, <1>4, <1>6 DEF E!TypeOK
<1>8. OnlyEffect(e)
  BY <1>3 DEF OnlyEffect, E!TypeOK
<1>9. /\ from \notin CreateLabels /\ from \in EndLabels /\ from \notin AnnounceLabels
      /\ from \in LastLabels
      /\ to \notin CreateLabels /\ to \in EndLabels /\ to \notin AnnounceLabels /\ to \notin LastLabels
  BY DEF CreateLabels, EndLabels, AnnounceLabels, LastLabels
<1>10. /\ E!In(CreateLabels, e)' = E!In(CreateLabels, e) \ {t} /\ t \notin E!In(CreateLabels, e)
       /\ E!In(EndLabels, e)' = E!In(EndLabels, e) \union {t} /\ t \in E!In(EndLabels, e)
       /\ E!In(LastLabels, e)' = E!In(LastLabels, e) \ {t}
       /\ E!In(LastLabels, e) \subseteq E!In(EndLabels, e)
       /\ E!In(AnnounceLabels, e) \subseteq E!In(UseLabels, e)
  BY <1>6, <1>9, MoveSets
<1>11. wrapper[e] = "live" /\ refs[e] = 0 /\ \A u \in E!In(EndLabels, e) : u = t
  BY <1>5, <1>10 DEF EffectLife
<1>12. /\ E!In(CreateLabels, e)' = E!In(CreateLabels, e) /\ E!In(EndLabels, e)' = E!In(EndLabels, e)
       /\ E!In(LastLabels, e)' = {}
  BY <1>10, <1>11
<1>13. E!In(AnnounceLabels, e) = {}
  <2>1. refs[e] = eKept[e] + Uses(e) /\ eKept[e] \in Nat
    BY <1>3, <1>4, <1>5 DEF EffectCounts, E!TypeOK
  <2>2. Uses(e) \in Nat /\ (Uses(e) = 0 => E!In(UseLabels, e) = {})
    BY <1>6, MoveCounts
  <2>3. E!In(UseLabels, e) = {} BY <1>11, <2>1, <2>2
  <2>4. QED BY <1>10, <2>3
<1>14. "EffectCreated" \in heard[e]
  BY <1>5, <1>11, <1>13 DEF EffectLife
<1>15. EffectLife(e)'
  BY <1>3, <1>5, <1>7, <1>11, <1>12, <1>14 DEF EffectLife
<1>16. /\ UseBit(from) = 0 /\ UseBit(to) = 0 /\ CreateBit(from) = 0 /\ CreateBit(to) = 0
  BY LabelBits
<1>17. LentBit(from) = LentBit(to) /\ LentBit(to) \in Int
  BY <1>2, LabelBits
<1>18. /\ refs[e] \in Nat /\ eKept[e] \in Nat /\ driver[e] \in Nat /\ eBare[e] \in Nat
       /\ Bit(wrapper[e] = "live") \in Int
  BY <1>3, <1>4 DEF E!TypeOK, Bit
<1>19. /\ refs'[e] = refs[e] + (eKept'[e] - eKept[e]) + (UseBit(to) - UseBit(from))
       /\ driver'[e] = driver[e] + (eBare'[e] - eBare[e])
                      + (Bit(wrapper'[e] = "live") - Bit(wrapper[e] = "live"))
                      + (CreateBit(to) - CreateBit(from)) + (LentBit(to) - LentBit(from))
  BY <1>3, <1>16, <1>17, <1>18
<1>20. (registered'[e] <=> refs'[e] > 0) /\ (refs'[e] > 0 => wrapper'[e] = "live")
  BY <1>3, <1>5 DEF EffectCounts
<1>21. QED BY <1>4, <1>6, <1>7, <1>8, <1>15, <1>19, <1>20, BalancedStep

(* The wrapper is deleted, and its reference to the driver's effect.       *)
LEMMA DeleteEffectStep ==
  ASSUME EffectsInv, NEW t \in Threads, E!Delete(t)
  PROVE  EffectsInv'
<1>0. PICK e : e = eThread[t].effect
  OBVIOUS
<1>1. PICK from \in {"delete", "deleteCallback"} : eThread[t].at = from
  BY DEF E!Delete, E!At
<1>2. /\ E!TypeOK /\ eThread[t].effect = e
      /\ wrapper' = [wrapper EXCEPT ![e] = "deleted"] /\ driver' = [driver EXCEPT ![e] = @ - 1]
      /\ UNCHANGED <<refs, registered, eKept, eBare, heard>>
  BY <1>0 DEF EffectsInv, E!Delete, E!RealReleased
<1>3. e \in Effects BY <1>1, <1>2, EffectCalls
<1>4. EffectCounts(e) /\ EffectLife(e) BY <1>3 DEF EffectsInv
<1>5. PICK to \in {"idle", "lent"} :
        /\ Moves(t, e, from, to) /\ (from = "delete" <=> to = "idle")
        /\ eThread' \in [Threads -> {E!Idle} \union [at : E!Labels, effect : Effects]]
  <2>1. CASE from = "delete"
    <3>1. E!Return(t) BY <1>1, <2>1, Zenon DEF E!Delete, E!At
    <3>2. QED BY <1>1, <1>2, <1>3, <2>1, <3>1, CallMoves
  <2>2. CASE from = "deleteCallback"
    <3>0. eThread[t].at # "delete" /\ "lent" \in E!Labels BY <1>1, <2>2 DEF E!Labels
    <3>1. E!Call(t, "lent", e) BY <1>0, <3>0, Zenon DEF E!Delete, E!At
    <3>2. QED BY <1>1, <1>2, <1>3, <2>2, <3>0, <3>1, CallMoves
  <2>3. QED BY <2>1, <2>2
<1>6. /\ from \notin CreateLabels /\ from \in EndLabels
      /\ to \notin CreateLabels /\ to \notin EndLabels
  BY DEF CreateLabels, EndLabels
<1>7. /\ E!In(CreateLabels, e)' = E!In(CreateLabels, e) \ {t}
      /\ E!In(EndLabels, e)' = E!In(EndLabels, e) \ {t} /\ t \in E!In(EndLabels, e)
      /\ E!In(LastLabels, e)' \subseteq E!In(EndLabels, e)'
  <2>1. E!In(LastLabels, e)' \subseteq E!In(EndLabels, e)'
    BY DEF E!In, LastLabels, EndLabels
  <2>2. QED BY <1>5, <1>6, <2>1, MoveSets
<1>8. wrapper[e] = "live" /\ refs[e] = 0 /\ \A u \in E!In(EndLabels, e) : u = t
  BY <1>4, <1>7 DEF EffectLife
<1>9. /\ E!In(CreateLabels, e)' = {} /\ E!In(EndLabels, e)' = {} /\ E!In(LastLabels, e)' = {}
  BY <1>4, <1>7, <1>8 DEF EffectLife
<1>10. /\ driver[e] = eBare[e] + 1 + Creates(e) + Borrows(e)
       /\ Creates(e) \in Nat /\ Borrows(e) \in Nat
  BY <1>4, <1>5, <1>8, MoveCounts DEF EffectCounts, Bit
<1>11. refs[e] \in Nat /\ eKept[e] \in Nat /\ driver[e] \in Nat /\ eBare[e] \in Nat
  BY <1>2, <1>3 DEF E!TypeOK
<1>12. driver[e] - 1 \in Nat
  BY <1>10, <1>11
<1>13. /\ driver' \in [Effects -> Nat] /\ driver'[e] = driver[e] - 1 /\ wrapper'[e] = "deleted"
  BY <1>2, <1>3, <1>12 DEF E!TypeOK
<1>14. E!TypeOK' /\ OnlyEffect(e)
  BY <1>2, <1>5, <1>13 DEF E!TypeOK, OnlyEffect
<1>15. EffectLife(e)'
  BY <1>2, <1>4, <1>9, <1>13 DEF EffectLife
<1>16. /\ UseBit(from) = 0 /\ UseBit(to) = 0 /\ CreateBit(from) = 0 /\ CreateBit(to) = 0
  BY LabelBits
<1>17. LentBit(from) = LentBit(to) /\ LentBit(to) \in Int
  BY <1>5, LabelBits
<1>18. Bit(wrapper[e] = "live") = 1 /\ Bit(wrapper'[e] = "live") = 0
  BY <1>8, <1>13 DEF Bit
<1>19. refs' = refs /\ eKept' = eKept /\ eBare' = eBare /\ registered' = registered
  BY <1>2
<1>20. /\ refs'[e] = refs[e] + (eKept'[e] - eKept[e]) + (UseBit(to) - UseBit(from))
       /\ driver'[e] = driver[e] + (eBare'[e] - eBare[e])
                      + (Bit(wrapper'[e] = "live") - Bit(wrapper[e] = "live"))
                      + (CreateBit(to) - CreateBit(from)) + (LentBit(to) - LentBit(from))
  BY <1>11, <1>13, <1>16, <1>17, <1>18, <1>19
<1>21. refs'[e] = 0 /\ ~registered'[e]
  BY <1>4, <1>8, <1>11, <1>19 DEF EffectCounts
<1>22. (registered'[e] <=> refs'[e] > 0) /\ (refs'[e] > 0 => wrapper'[e] = "live")
  BY <1>21
<1>23. QED BY <1>3, <1>5, <1>14, <1>15, <1>20, <1>22, BalancedStep

LEMMA EffectsStep == EffectsInv /\ [E!Next]_E!vars => EffectsInv'
<1> SUFFICES ASSUME EffectsInv, [E!Next]_E!vars PROVE EffectsInv'
  OBVIOUS
<1>1. CASE UNCHANGED E!vars
  <2>1. UNCHANGED <<driver, wrapper, refs, registered, eKept, eBare, eThread, heard>>
    BY <1>1 DEF E!vars
  <2>2. \A labels, e : E!In(labels, e)' = E!In(labels, e)
    BY <2>1 DEF E!In
  <2>3. /\ \A e : E!In(CreateLabels, e)' = E!In(CreateLabels, e)
        /\ \A e : E!In(EndLabels, e)' = E!In(EndLabels, e)
        /\ \A e : E!In(AnnounceLabels, e)' = E!In(AnnounceLabels, e)
        /\ \A e : E!In(LastLabels, e)' = E!In(LastLabels, e)
    BY <2>2
  <2>4. \A e : Uses(e)' = Uses(e) /\ Creates(e)' = Creates(e) /\ Borrows(e)' = Borrows(e)
    BY <2>2 DEF Uses, Creates, Borrows
  <2>5. E!TypeOK' BY <2>1 DEF EffectsInv, E!TypeOK
  <2>6. ASSUME NEW e \in Effects PROVE EffectCounts(e)'
    BY <2>1, <2>4 DEF EffectsInv, EffectCounts
  <2>7. ASSUME NEW e \in Effects PROVE EffectLife(e)'
    BY <2>1, <2>3 DEF EffectsInv, EffectLife
  <2>8. QED BY <2>5, <2>6, <2>7 DEF EffectsInv
<1>2. ASSUME NEW t \in Threads,
             \/ E!Register(t) \/ E!Announce(t) \/ E!NotWrapped(t)
             \/ E!FindAndAddRef(t) \/ E!CallbackReturns(t) \/ E!DriverTakesBack(t)
             \/ E!EmitCommand(t) \/ E!EmitRelease(t) \/ E!Delete(t) \/ E!KeepBare(t)
      PROVE  EffectsInv'
  BY <1>2, RegisterStep, AnnounceStep, NotWrappedStep, FindAndAddRefStep, CallbackEffectStep,
     DriverTakesBackStep, EmitCommandStep, EmitReleaseStep, DeleteEffectStep, KeepBareEffectStep
<1>3. ASSUME NEW t \in Threads, NEW e \in Effects,
             \/ E!DriverCreates(t, e) \/ E!DriverLends(t, e) \/ E!AddRef(t, e) \/ E!QueryBare(t, e)
             \/ E!Command(t, e) \/ E!Release(t, e) \/ E!ReleaseBare(t, e)
      PROVE  EffectsInv'
  BY <1>3, DriverCreatesStep, DriverLendsStep, AddRefEffectStep, QueryBareEffectStep, CommandStep,
     ReleaseEffectStep, ReleaseBareEffectStep
<1>4. QED BY <1>1, <1>2, <1>3 DEF E!Next

(* For any number of effects and of threads: a wrapper counts exactly the  *)
(* references of the game and of the calls under way, the driver's effect  *)
(* is neither leaked nor freed under its wrapper, and the one Release that *)
(* WrapperEffect sends is the last that is heard of an effect              *)
(* (src/src/wrapper_effect.cpp, CreateEffect and EnumCreatedEffectObjects  *)
(* of src/src/wrapper_device8.cpp).                                        *)
THEOREM EffectRefsAreExact == E!Spec => []EffectRefsExact
<1>1. EffectsInv => EffectRefsExact
  BY EffectsInvMeans DEF EffectRefsExact
<1>2. QED BY <1>1, EffectsInit, EffectsStep, PTL DEF E!Spec

(***************************************************************************)
(* When a device says that it has stopped.                                 *)
(***************************************************************************)

(* What holds while no two calls have overlapped: at most one is under     *)
(* way; an acquired device has an open gate, unless Acquire is about to    *)
(* open it; receivers that believe in playback will be told of the next    *)
(* loss, because the gate is open or StopAll is on its way; and they know  *)
(* of every playback that is not just being announced.                     *)
Serial ==
  /\ \A t, u \in Threads : at[t] # "idle" /\ at[u] # "idle" => t = u
  /\ acquired => ~gate \/ \E t \in Threads : at[t] = "open"
  /\ hears => ~gate \/ \E t \in Threads : at[t] = "stop"
  /\ playing => hears \/ \E t \in Threads : at[t] = "start"
  /\ known => ~hears
  /\ \A t \in Threads :
       /\ at[t] = "start" => ~gate /\ ~known
       /\ at[t] \in {"invalidate", "stop"} => ~acquired

GateInv ==
  /\ G!TypeOK /\ G!StopsAreEarned
  /\ playing => acquired
  /\ known => ~acquired
  /\ ~overlapped => Serial

AtLabel(label) == {t \in Threads : at[t] = label}
Stopping == Cardinality(AtLabel("stop"))
Opening  == Cardinality(AtLabel("open"))

LEMMA SameGateCardinality == \A S : G!Cardinality(S) = Cardinality(S)
BY DEF Cardinality, G!Cardinality

LEMMA EarnedMeans ==
  G!StopsAreEarned <=> stops + Stopping + Opening + Bit(~gate) <= acquires
BY SameGateCardinality DEF G!StopsAreEarned, Stopping, Opening, AtLabel, Bit

(* Thread t goes from one label to another.                                *)
Goes(t, from, to) == at[t] = from /\ at' = [at EXCEPT ![t] = to]

LEMMA GoesMeans ==
  ASSUME G!TypeOK, NEW t \in Threads, NEW from, NEW to, Goes(t, from, to)
  PROVE  /\ at[t] = from /\ at'[t] = to /\ \A u \in Threads \ {t} : at'[u] = at[u]
         /\ to \in {"idle", "open", "invalidate", "stop", "start"} =>
              at' \in [Threads -> {"idle", "open", "invalidate", "stop", "start"}]
BY DEF G!TypeOK, Goes

LEMMA GateTally ==
  ASSUME G!TypeOK, NEW t \in Threads, NEW from, NEW to, Goes(t, from, to)
  PROVE  /\ Stopping \in Nat /\ Opening \in Nat /\ Stopping' \in Nat /\ Opening' \in Nat
         /\ Stopping' = Stopping + Bit(to = "stop") - Bit(from = "stop")
         /\ Opening' = Opening + Bit(to = "open") - Bit(from = "open")
<1>1. at[t] = from /\ at'[t] = to /\ \A u \in Threads \ {t} : at'[u] = at[u]
  BY GoesMeans
<1>2. ASSUME NEW label
      PROVE  /\ Cardinality(AtLabel(label)) \in Nat /\ Cardinality(AtLabel(label)') \in Nat
             /\ Cardinality(AtLabel(label)') - Bit(to = label)
                  = Cardinality(AtLabel(label)) - Bit(from = label)
  <2>1. IsFiniteSet(AtLabel(label)) BY WrapperConstants, FS_Subset DEF AtLabel
  <2>2. AtLabel(label) \ {t} = AtLabel(label)' \ {t} BY <1>1 DEF AtLabel
  <2>3. (t \in AtLabel(label) <=> from = label) /\ (t \in AtLabel(label)' <=> to = label)
    BY <1>1 DEF AtLabel
  <2>4. Bit(t \in AtLabel(label)) = Bit(from = label) /\ Bit(t \in AtLabel(label)') = Bit(to = label)
    BY <2>3 DEF Bit
  <2>5. QED BY <2>1, <2>2, <2>4, Tally
<1>3. /\ Stopping \in Nat /\ Stopping' \in Nat
      /\ Stopping' - Bit(to = "stop") = Stopping - Bit(from = "stop")
  BY <1>2 DEF Stopping
<1>4. /\ Opening \in Nat /\ Opening' \in Nat
      /\ Opening' - Bit(to = "open") = Opening - Bit(from = "open")
  BY <1>2 DEF Opening
<1>5. /\ Bit(to = "stop") \in Nat /\ Bit(from = "stop") \in Nat
      /\ Bit(to = "open") \in Nat /\ Bit(from = "open") \in Nat
  BY DEF Bit
<1>6. QED BY <1>3, <1>4, <1>5

(* The only steps that spend an acquisition are those of Acquire itself:   *)
(* the rest pass one StopAll on, from the gate to a thread and from the    *)
(* thread to the wire.                                                     *)
LEMMA EarnedStep ==
  ASSUME G!TypeOK, G!StopsAreEarned, NEW t \in Threads, NEW from, NEW to, Goes(t, from, to),
         stops' \in Nat, acquires' \in Nat,
         (stops' - stops) + (Bit(to = "stop") - Bit(from = "stop"))
           + (Bit(to = "open") - Bit(from = "open")) + (Bit(~gate') - Bit(~gate)) <= acquires' - acquires
  PROVE  G!StopsAreEarned'
<1>1. stops + Stopping + Opening + Bit(~gate) <= acquires
  BY EarnedMeans
<1>2. /\ Stopping \in Nat /\ Opening \in Nat /\ Stopping' \in Nat /\ Opening' \in Nat
      /\ Stopping' = Stopping + Bit(to = "stop") - Bit(from = "stop")
      /\ Opening' = Opening + Bit(to = "open") - Bit(from = "open")
  BY GateTally
<1>3. stops \in Nat /\ acquires \in Nat BY DEF G!TypeOK
<1>4. /\ Bit(to = "stop") \in Int /\ Bit(from = "stop") \in Int
      /\ Bit(to = "open") \in Int /\ Bit(from = "open") \in Int
      /\ Bit(~gate) \in Int /\ Bit(~gate') \in Int
  BY DEF Bit
<1>5. stops' + Stopping' + Opening' + Bit(~gate') <= acquires'
  BY <1>1, <1>2, <1>3, <1>4
<1>6. (G!StopsAreEarned <=> stops + Stopping + Opening + Bit(~gate) <= acquires)'
  BY EarnedMeans, PTL
<1>7. QED BY <1>5, <1>6

LEMMA GateTypes ==
  /\ G!TypeOK =>
       /\ acquired \in BOOLEAN /\ playing \in BOOLEAN /\ gate \in BOOLEAN /\ hears \in BOOLEAN
       /\ known \in BOOLEAN /\ overlapped \in BOOLEAN /\ acquires \in Nat /\ stops \in Nat
  /\ /\ acquired' \in BOOLEAN /\ playing' \in BOOLEAN /\ gate' \in BOOLEAN /\ hears' \in BOOLEAN
     /\ known' \in BOOLEAN /\ overlapped' \in BOOLEAN /\ acquires' \in Nat /\ stops' \in Nat
     /\ at' \in [Threads -> {"idle", "open", "invalidate", "stop", "start"}]
     => G!TypeOK'
BY DEF G!TypeOK

(* A call that begins while none is under way.                             *)
LEMMA EnterMeans ==
  ASSUME GateInv, NEW t \in Threads,
         NEW label \in {"open", "invalidate", "stop", "start"}, G!Enter(t, label)
  PROVE  /\ Goes(t, "idle", label) /\ overlapped' \in BOOLEAN
         /\ at' \in [Threads -> {"idle", "open", "invalidate", "stop", "start"}]
         /\ ~overlapped' =>
              /\ acquired => ~gate
              /\ hears => ~gate
              /\ playing => hears
              /\ known => ~hears
              /\ at'[t] = label /\ \A u \in Threads \ {t} : at'[u] = "idle"
<1>1. Goes(t, "idle", label)
  BY DEF G!Enter, Goes
<1>2. /\ at'[t] = label /\ \A u \in Threads \ {t} : at'[u] = at[u]
      /\ at' \in [Threads -> {"idle", "open", "invalidate", "stop", "start"}]
  BY <1>1, GoesMeans DEF GateInv
<1>3. overlapped' \in BOOLEAN /\ (~overlapped' => ~overlapped /\ \A u \in Threads : at[u] = "idle")
  BY DEF G!Enter
<1>4. ASSUME ~overlapped'
      PROVE  /\ (acquired => ~gate) /\ (hears => ~gate) /\ (playing => hears) /\ (known => ~hears)
  BY <1>3, <1>4 DEF GateInv, Serial
<1>5. QED BY <1>1, <1>2, <1>3, <1>4

(* A call goes on: while none have overlapped, it is the only one.         *)
LEMMA GoesOn ==
  ASSUME GateInv, NEW t \in Threads,
         NEW from \in {"open", "invalidate", "stop", "start"},
         NEW to \in {"idle", "open", "invalidate", "stop", "start"}, Goes(t, from, to)
  PROVE  /\ at' \in [Threads -> {"idle", "open", "invalidate", "stop", "start"}]
         /\ ~overlapped => \A u \in Threads \ {t} : at[u] = "idle" /\ at'[u] = "idle"
         /\ at[t] = from /\ at'[t] = to
<1>1. /\ at[t] = from /\ at'[t] = to /\ \A u \in Threads \ {t} : at'[u] = at[u]
      /\ at' \in [Threads -> {"idle", "open", "invalidate", "stop", "start"}]
  BY GoesMeans DEF GateInv
<1>2. ~overlapped => \A u \in Threads \ {t} : at[u] = "idle"
  BY <1>1 DEF GateInv, Serial
<1>3. QED BY <1>1, <1>2

(* Acquire succeeds ...                                                    *)
LEMMA AcquireStep ==
  ASSUME GateInv, NEW t \in Threads, G!Acquire(t)
  PROVE  GateInv'
<1>1. /\ G!TypeOK /\ G!StopsAreEarned /\ acquired' = TRUE /\ acquires' = acquires + 1 /\ known' = FALSE
      /\ playing' = playing /\ gate' = gate /\ hears' = hears /\ stops' = stops
      /\ G!Enter(t, "open")
  BY DEF GateInv, G!Acquire
<1>2. /\ Goes(t, "idle", "open") /\ overlapped' \in BOOLEAN
      /\ at' \in [Threads -> {"idle", "open", "invalidate", "stop", "start"}]
      /\ ~overlapped' =>
              /\ acquired => ~gate
              /\ hears => ~gate
              /\ playing => hears
              /\ known => ~hears
              /\ at'[t] = "open" /\ \A u \in Threads \ {t} : at'[u] = "idle"
  BY <1>1, EnterMeans
<1>3. G!TypeOK'
  <2>1. acquires' \in Nat /\ stops' \in Nat BY <1>1 DEF G!TypeOK
  <2>2. QED BY <1>1, <1>2, <2>1, GateTypes
<1>4. G!StopsAreEarned'
  <2>1. stops' \in Nat /\ acquires' \in Nat /\ stops \in Nat /\ acquires \in Nat
    BY <1>1, <1>3 DEF G!TypeOK
  <2>2. /\ Bit("open" = "stop") = 0 /\ Bit("idle" = "stop") = 0
        /\ Bit("open" = "open") = 1 /\ Bit("idle" = "open") = 0
    BY DEF Bit
  <2>3. Bit(~gate') = Bit(~gate) /\ Bit(~gate) \in Int BY <1>1 DEF Bit
  <2>4. (stops' - stops) + (Bit("open" = "stop") - Bit("idle" = "stop"))
           + (Bit("open" = "open") - Bit("idle" = "open")) + (Bit(~gate') - Bit(~gate))
          <= acquires' - acquires
    BY <1>1, <2>1, <2>2, <2>3
  <2>5. QED BY <1>1, <1>2, <2>1, <2>4, EarnedStep
<1>5. (playing' => acquired') /\ (known' => ~acquired')
  BY <1>1
<1>6. ~overlapped' => Serial'
  BY <1>1, <1>2 DEF Serial
<1>7. QED BY <1>3, <1>4, <1>5, <1>6 DEF GateInv

(* ... and opens the gate.                                                 *)
LEMMA OpenGateStep ==
  ASSUME GateInv, NEW t \in Threads, G!OpenGate(t)
  PROVE  GateInv'
<1>1. /\ G!TypeOK /\ G!StopsAreEarned /\ gate' = FALSE /\ Goes(t, "open", "idle")
      /\ acquired' = acquired /\ playing' = playing /\ hears' = hears /\ acquires' = acquires
      /\ stops' = stops /\ known' = known /\ overlapped' = overlapped
  BY DEF GateInv, G!OpenGate, G!Leave, Goes
<1>2. /\ at' \in [Threads -> {"idle", "open", "invalidate", "stop", "start"}]
      /\ ~overlapped => \A u \in Threads \ {t} : at[u] = "idle" /\ at'[u] = "idle"
      /\ at[t] = "open" /\ at'[t] = "idle"
  BY <1>1, GoesOn
<1>3. G!TypeOK' BY <1>1, <1>2, GateTypes
<1>4. G!StopsAreEarned'
  <2>1. stops \in Nat /\ acquires \in Nat BY <1>1, GateTypes
  <2>2. /\ Bit("idle" = "stop") = 0 /\ Bit("open" = "stop") = 0
        /\ Bit("idle" = "open") = 0 /\ Bit("open" = "open") = 1
    BY DEF Bit
  <2>3. Bit(~gate') = 1 /\ Bit(~gate) \in 0..1 BY <1>1 DEF Bit
  <2>4. (stops' - stops) + (Bit("idle" = "stop") - Bit("open" = "stop"))
           + (Bit("idle" = "open") - Bit("open" = "open")) + (Bit(~gate') - Bit(~gate))
          <= acquires' - acquires
    BY <1>1, <2>1, <2>2, <2>3
  <2>5. stops' \in Nat /\ acquires' \in Nat BY <1>1, <2>1
  <2>6. QED BY <1>1, <2>4, <2>5, EarnedStep
<1>5. (playing' => acquired') /\ (known' => ~acquired')
  BY <1>1 DEF GateInv
<1>6. ~overlapped' => Serial'
  <2>1. ASSUME ~overlapped PROVE Serial
    BY <2>1 DEF GateInv
  <2>2. QED BY <1>1, <1>2, <2>1 DEF Serial
<1>7. QED BY <1>3, <1>4, <1>5, <1>6 DEF GateInv

(* A call of the driver leaves the device without playback: Unacquire, or  *)
(* a polling call that reports the loss.                                   *)
Loses(t) ==
  /\ acquired' = FALSE /\ playing' = FALSE
  /\ G!Enter(t, "invalidate")
  /\ gate' = gate /\ hears' = hears /\ acquires' = acquires /\ stops' = stops /\ known' = known

LEMMA LosesStep ==
  ASSUME GateInv, NEW t \in Threads, Loses(t)
  PROVE  GateInv'
<1>1. /\ G!TypeOK /\ G!StopsAreEarned /\ acquired' = FALSE /\ playing' = FALSE
      /\ G!Enter(t, "invalidate")
      /\ gate' = gate /\ hears' = hears /\ acquires' = acquires /\ stops' = stops /\ known' = known
  BY DEF GateInv, Loses
<1>2. /\ Goes(t, "idle", "invalidate") /\ overlapped' \in BOOLEAN
      /\ at' \in [Threads -> {"idle", "open", "invalidate", "stop", "start"}]
      /\ ~overlapped' =>
              /\ acquired => ~gate
              /\ hears => ~gate
              /\ playing => hears
              /\ known => ~hears
              /\ at'[t] = "invalidate" /\ \A u \in Threads \ {t} : at'[u] = "idle"
  BY <1>1, EnterMeans
<1>3. G!TypeOK' BY <1>1, <1>2, GateTypes
<1>4. G!StopsAreEarned'
  <2>1. stops \in Nat /\ acquires \in Nat BY <1>1, GateTypes
  <2>2. /\ Bit("invalidate" = "stop") = 0 /\ Bit("idle" = "stop") = 0
        /\ Bit("invalidate" = "open") = 0 /\ Bit("idle" = "open") = 0
    BY DEF Bit
  <2>3. Bit(~gate') = Bit(~gate) /\ Bit(~gate) \in Int BY <1>1 DEF Bit
  <2>4. (stops' - stops) + (Bit("invalidate" = "stop") - Bit("idle" = "stop"))
           + (Bit("invalidate" = "open") - Bit("idle" = "open")) + (Bit(~gate') - Bit(~gate))
          <= acquires' - acquires
    BY <1>1, <2>1, <2>2, <2>3
  <2>5. stops' \in Nat /\ acquires' \in Nat BY <1>1, <2>1
  <2>6. QED BY <1>1, <1>2, <2>4, <2>5, EarnedStep
<1>5. (playing' => acquired') /\ (known' => ~acquired')
  BY <1>1
<1>6. ~overlapped' => Serial'
  BY <1>1, <1>2 DEF Serial
<1>7. QED BY <1>3, <1>4, <1>5, <1>6 DEF GateInv

(* invalidate_playback: whoever closes the gate owes the one StopAll.      *)
LEMMA InvalidateStep ==
  ASSUME GateInv, NEW t \in Threads, G!Invalidate(t)
  PROVE  GateInv'
<1>1. /\ G!TypeOK /\ G!StopsAreEarned /\ gate' = TRUE /\ at[t] = "invalidate"
      /\ acquired' = acquired /\ playing' = playing /\ hears' = hears /\ acquires' = acquires
      /\ stops' = stops /\ overlapped' = overlapped
  BY DEF GateInv, G!Invalidate
<1>2. stops \in Nat /\ acquires \in Nat BY <1>1, GateTypes
<1>3. /\ Bit("idle" = "stop") = 0 /\ Bit("invalidate" = "stop") = 0 /\ Bit("stop" = "stop") = 1
      /\ Bit("idle" = "open") = 0 /\ Bit("invalidate" = "open") = 0 /\ Bit("stop" = "open") = 0
  BY DEF Bit
<1>4. ASSUME ~overlapped PROVE Serial
  BY <1>4 DEF GateInv
<1>5. CASE gate
  <2>1. Goes(t, "invalidate", "idle") /\ known' = ~acquired
    BY <1>1, <1>5, Zenon DEF G!Invalidate, G!MustTell, G!Leave, Goes
  <2>2. /\ at' \in [Threads -> {"idle", "open", "invalidate", "stop", "start"}]
        /\ ~overlapped => \A u \in Threads \ {t} : at[u] = "idle" /\ at'[u] = "idle"
        /\ at'[t] = "idle"
    BY <2>1, GoesOn
  <2>3. known' \in BOOLEAN BY <2>1
  <2>4. G!TypeOK' BY <1>1, <2>2, <2>3, GateTypes
  <2>5. Bit(~gate') = 0 /\ Bit(~gate) = 0 BY <1>1, <1>5 DEF Bit
  <2>6. (stops' - stops) + (Bit("idle" = "stop") - Bit("invalidate" = "stop"))
           + (Bit("idle" = "open") - Bit("invalidate" = "open")) + (Bit(~gate') - Bit(~gate))
          <= acquires' - acquires
    BY <1>1, <1>2, <1>3, <2>5
  <2>7. stops' \in Nat /\ acquires' \in Nat BY <1>1, <1>2
  <2>8. G!StopsAreEarned' BY <1>1, <2>1, <2>6, <2>7, EarnedStep
  <2>9. (playing' => acquired') /\ (known' => ~acquired')
    BY <1>1, <2>1 DEF GateInv
  <2>10. ~overlapped' => Serial'
    BY <1>1, <1>4, <1>5, <2>1, <2>2 DEF Serial
  <2>11. QED BY <2>4, <2>8, <2>9, <2>10 DEF GateInv
<1>6. CASE ~gate
  <2>1. Goes(t, "invalidate", "stop") /\ known' = known
    BY <1>1, <1>6, Zenon DEF G!Invalidate, G!MustTell, Goes
  <2>2. /\ at' \in [Threads -> {"idle", "open", "invalidate", "stop", "start"}]
        /\ ~overlapped => \A u \in Threads \ {t} : at[u] = "idle" /\ at'[u] = "idle"
        /\ at'[t] = "stop"
    BY <2>1, GoesOn
  <2>3. G!TypeOK' BY <1>1, <2>1, <2>2, GateTypes
  <2>4. Bit(~gate') = 0 /\ Bit(~gate) = 1 BY <1>1, <1>6 DEF Bit
  <2>5. (stops' - stops) + (Bit("stop" = "stop") - Bit("invalidate" = "stop"))
           + (Bit("stop" = "open") - Bit("invalidate" = "open")) + (Bit(~gate') - Bit(~gate))
          <= acquires' - acquires
    BY <1>1, <1>2, <1>3, <2>4
  <2>6. stops' \in Nat /\ acquires' \in Nat BY <1>1, <1>2
  <2>7. G!StopsAreEarned' BY <1>1, <2>1, <2>5, <2>6, EarnedStep
  <2>8. (playing' => acquired') /\ (known' => ~acquired')
    BY <1>1, <2>1 DEF GateInv
  <2>9. ~overlapped' => Serial'
    BY <1>1, <1>4, <2>1, <2>2 DEF Serial
  <2>10. QED BY <2>3, <2>7, <2>8, <2>9 DEF GateInv
<1>7. QED BY <1>5, <1>6

(* StopAll is sent.                                                        *)
LEMMA EmitStopAllStep ==
  ASSUME GateInv, NEW t \in Threads, G!EmitStopAll(t)
  PROVE  GateInv'
<1>1. /\ G!TypeOK /\ G!StopsAreEarned /\ hears' = FALSE /\ stops' = stops + 1
      /\ known' = ~acquired /\ Goes(t, "stop", "idle")
      /\ acquired' = acquired /\ playing' = playing /\ gate' = gate /\ acquires' = acquires
      /\ overlapped' = overlapped
  BY DEF GateInv, G!EmitStopAll, G!Leave, Goes
<1>2. /\ at' \in [Threads -> {"idle", "open", "invalidate", "stop", "start"}]
      /\ ~overlapped => \A u \in Threads \ {t} : at[u] = "idle" /\ at'[u] = "idle"
      /\ at[t] = "stop" /\ at'[t] = "idle"
  BY <1>1, GoesOn
<1>3. stops \in Nat /\ acquires \in Nat BY <1>1, GateTypes
<1>4. stops' \in Nat /\ acquires' \in Nat /\ known' \in BOOLEAN
  <2>1. stops' \in Nat /\ acquires' \in Nat BY <1>1, <1>3
  <2>2. known' \in BOOLEAN BY <1>1
  <2>3. QED BY <2>1, <2>2
<1>5. G!TypeOK' BY <1>1, <1>2, <1>4, GateTypes
<1>6. G!StopsAreEarned'
  <2>1. /\ Bit("idle" = "stop") = 0 /\ Bit("stop" = "stop") = 1
        /\ Bit("idle" = "open") = 0 /\ Bit("stop" = "open") = 0
    BY DEF Bit
  <2>2. Bit(~gate') = Bit(~gate) /\ Bit(~gate) \in Int BY <1>1 DEF Bit
  <2>3. stops' = stops + 1 /\ acquires' = acquires BY <1>1
  <2>4. (stops' - stops) + (Bit("idle" = "stop") - Bit("stop" = "stop"))
           + (Bit("idle" = "open") - Bit("stop" = "open")) + (Bit(~gate') - Bit(~gate))
          <= acquires' - acquires
    BY <1>3, <2>1, <2>2, <2>3
  <2>5. QED BY <1>1, <1>4, <2>4, EarnedStep
<1>7. (playing' => acquired') /\ (known' => ~acquired')
  BY <1>1 DEF GateInv
<1>8. ~overlapped' => Serial'
  <2>1. ASSUME ~overlapped PROVE Serial /\ ~acquired /\ ~playing
    BY <1>2, <2>1 DEF GateInv, Serial
  <2>2. QED BY <1>1, <1>2, <2>1 DEF Serial
<1>9. QED BY <1>5, <1>6, <1>7, <1>8 DEF GateInv

(* An effect of the device starts ...                                      *)
LEMMA StartStep ==
  ASSUME GateInv, NEW t \in Threads, G!Start(t)
  PROVE  GateInv'
<1>1. /\ G!TypeOK /\ G!StopsAreEarned /\ acquired = TRUE /\ acquired' = acquired /\ playing' = TRUE
      /\ G!Enter(t, "start")
      /\ gate' = gate /\ hears' = hears /\ acquires' = acquires /\ stops' = stops /\ known' = known
  <2>1. acquired \in BOOLEAN BY GateTypes DEF GateInv
  <2>2. QED BY <2>1 DEF GateInv, G!Start
<1>2. /\ Goes(t, "idle", "start") /\ overlapped' \in BOOLEAN
      /\ at' \in [Threads -> {"idle", "open", "invalidate", "stop", "start"}]
      /\ ~overlapped' =>
              /\ acquired => ~gate
              /\ hears => ~gate
              /\ playing => hears
              /\ known => ~hears
              /\ at'[t] = "start" /\ \A u \in Threads \ {t} : at'[u] = "idle"
  BY <1>1, EnterMeans
<1>3. G!TypeOK' BY <1>1, <1>2, GateTypes
<1>4. G!StopsAreEarned'
  <2>1. stops \in Nat /\ acquires \in Nat BY <1>1, GateTypes
  <2>2. /\ Bit("start" = "stop") = 0 /\ Bit("idle" = "stop") = 0
        /\ Bit("start" = "open") = 0 /\ Bit("idle" = "open") = 0
    BY DEF Bit
  <2>3. Bit(~gate') = Bit(~gate) /\ Bit(~gate) \in Int BY <1>1 DEF Bit
  <2>4. (stops' - stops) + (Bit("start" = "stop") - Bit("idle" = "stop"))
           + (Bit("start" = "open") - Bit("idle" = "open")) + (Bit(~gate') - Bit(~gate))
          <= acquires' - acquires
    BY <1>1, <2>1, <2>2, <2>3
  <2>5. stops' \in Nat /\ acquires' \in Nat BY <1>1, <2>1
  <2>6. QED BY <1>1, <1>2, <2>4, <2>5, EarnedStep
<1>5. ~known /\ (playing' => acquired') /\ (known' => ~acquired')
  BY <1>1 DEF GateInv
<1>6. ~overlapped' => Serial'
  BY <1>1, <1>2, <1>5 DEF Serial
<1>7. QED BY <1>3, <1>4, <1>5, <1>6 DEF GateInv

(* ... and its receivers are told.                                         *)
LEMMA EmitStartStep ==
  ASSUME GateInv, NEW t \in Threads, G!EmitStart(t)
  PROVE  GateInv'
<1>1. /\ G!TypeOK /\ G!StopsAreEarned /\ hears' = TRUE /\ Goes(t, "start", "idle")
      /\ acquired' = acquired /\ playing' = playing /\ gate' = gate /\ acquires' = acquires
      /\ stops' = stops /\ known' = known /\ overlapped' = overlapped
  BY DEF GateInv, G!EmitStart, G!Leave, Goes
<1>2. /\ at' \in [Threads -> {"idle", "open", "invalidate", "stop", "start"}]
      /\ ~overlapped => \A u \in Threads \ {t} : at[u] = "idle" /\ at'[u] = "idle"
      /\ at[t] = "start" /\ at'[t] = "idle"
  BY <1>1, GoesOn
<1>3. G!TypeOK' BY <1>1, <1>2, GateTypes
<1>4. G!StopsAreEarned'
  <2>1. stops \in Nat /\ acquires \in Nat BY <1>1, GateTypes
  <2>2. /\ Bit("start" = "stop") = 0 /\ Bit("idle" = "stop") = 0
        /\ Bit("start" = "open") = 0 /\ Bit("idle" = "open") = 0
    BY DEF Bit
  <2>3. Bit(~gate') = Bit(~gate) /\ Bit(~gate) \in Int BY <1>1 DEF Bit
  <2>4. (stops' - stops) + (Bit("idle" = "stop") - Bit("start" = "stop"))
           + (Bit("idle" = "open") - Bit("start" = "open")) + (Bit(~gate') - Bit(~gate))
          <= acquires' - acquires
    BY <1>1, <2>1, <2>2, <2>3
  <2>5. stops' \in Nat /\ acquires' \in Nat BY <1>1, <2>1
  <2>6. QED BY <1>1, <2>4, <2>5, EarnedStep
<1>5. (playing' => acquired') /\ (known' => ~acquired')
  BY <1>1 DEF GateInv
<1>6. ~overlapped' => Serial'
  <2>1. ASSUME ~overlapped PROVE Serial /\ ~gate /\ ~known
    BY <1>2, <2>1 DEF GateInv, Serial
  <2>2. QED BY <1>1, <1>2, <2>1 DEF Serial
<1>7. QED BY <1>3, <1>4, <1>5, <1>6 DEF GateInv

LEMMA DeviceLostStep ==
  ASSUME GateInv, G!DeviceLost
  PROVE  GateInv'
<1>1. /\ G!TypeOK /\ G!StopsAreEarned /\ acquired' = FALSE /\ playing' = FALSE
      /\ gate' = gate /\ at' = at /\ hears' = hears /\ acquires' = acquires
      /\ stops' = stops /\ known' = known /\ overlapped' = overlapped
  BY DEF GateInv, G!DeviceLost
<1>2. G!TypeOK' BY <1>1, GateTypes DEF G!TypeOK
<1>3. G!StopsAreEarned' BY <1>1 DEF G!StopsAreEarned
<1>4. ~overlapped' => Serial'
  BY <1>1 DEF GateInv, Serial
<1>5. QED BY <1>1, <1>2, <1>3, <1>4 DEF GateInv

LEMMA GateStep == GateInv /\ [G!Next]_G!vars => GateInv'
<1> SUFFICES ASSUME GateInv, [G!Next]_G!vars PROVE GateInv'
  OBVIOUS
<1>1. CASE UNCHANGED G!vars
  <2>1. /\ acquired' = acquired /\ playing' = playing /\ gate' = gate /\ at' = at /\ hears' = hears
        /\ acquires' = acquires /\ stops' = stops /\ known' = known /\ overlapped' = overlapped
    BY <1>1 DEF G!vars
  <2>2. G!TypeOK' BY <2>1 DEF GateInv, G!TypeOK
  <2>3. G!StopsAreEarned' BY <2>1 DEF GateInv, G!StopsAreEarned
  <2>4. ~overlapped' => Serial' BY <2>1 DEF GateInv, Serial
  <2>5. QED BY <2>1, <2>2, <2>3, <2>4 DEF GateInv
<1>2. ASSUME NEW t \in Threads, G!Unacquire(t) \/ G!ReportsLoss(t)
      PROVE  GateInv'
  <2>1. CASE G!Unacquire(t)
    <3>1. Loses(t) BY <2>1 DEF G!Unacquire, Loses
    <3>2. QED BY <3>1, LosesStep
  <2>2. CASE G!ReportsLoss(t)
    <3>1. acquired = FALSE /\ playing = FALSE
      BY <2>2, GateTypes DEF G!ReportsLoss, GateInv
    <3>2. Loses(t) BY <2>2, <3>1 DEF G!ReportsLoss, Loses
    <3>3. QED BY <3>2, LosesStep
  <2>3. QED BY <1>2, <2>1, <2>2
<1>3. QED BY <1>1, <1>2, AcquireStep, OpenGateStep, InvalidateStep, EmitStopAllStep, StartStep,
             EmitStartStep, DeviceLostStep DEF G!Next

LEMMA GateStarts == G!Init => GateInv
<1> SUFFICES ASSUME G!Init PROVE GateInv
  OBVIOUS
<1>1. G!TypeOK BY DEF G!Init, G!TypeOK
<1>2. AtLabel("stop") = {} /\ AtLabel("open") = {}
  BY DEF G!Init, AtLabel
<1>3. Stopping = 0 /\ Opening = 0 BY <1>2, FS_EmptySet DEF Stopping, Opening
<1>4. stops = 0 /\ acquires = 0 /\ Bit(~gate) = 0
  BY DEF G!Init, Bit
<1>5. G!StopsAreEarned BY <1>3, <1>4, EarnedMeans
<1>6. Serial BY DEF G!Init, Serial
<1>7. QED BY <1>1, <1>5, <1>6 DEF GateInv, G!Init

(* For any number of threads and of acquisitions: no more StopAlls are     *)
(* sent than acquisitions succeeded, whoever polls a lost device; and      *)
(* while calls do not overlap, the receivers know what the driver does     *)
(* (invalidate_playback of src/src/wrapper_device8.cpp).                   *)
THEOREM StopsAreAlwaysExact == G!Spec => []StopsAreExact
<1>1. GateInv => StopsAreExact
  <2> SUFFICES ASSUME GateInv PROVE G!TypeOK /\ G!StopsAreEarned /\ G!SerialIsExact
    BY DEF StopsAreExact
  <2>1. G!SerialIsExact BY DEF GateInv, Serial, G!SerialIsExact, G!AllIdle
  <2>2. QED BY <2>1 DEF GateInv
<1>2. QED BY <1>1, GateStarts, GateStep, PTL DEF G!Spec
=============================================================================
