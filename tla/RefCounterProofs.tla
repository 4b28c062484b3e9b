-------------------------- MODULE RefCounterProofs --------------------------
(***************************************************************************)
(* Proofs about RefCounter, for every finite set of threads and every set  *)
(* of weak references.                                                     *)
(***************************************************************************)
EXTENDS RefCounter, FiniteSetTheorems, TLAPS

DyingSteps == {"lock", "zap", "store", "notify", "destroy"}

\* The threads between the two instructions of TryIncRef.
InFlight == {t \in Threads : pc[t] \in {"commit", "undo"}}

\* The two fields of refCount count what they are meant to count.
Counts ==
  /\ real = Cardinality(held) - 1
  /\ spec = Cardinality(InFlight)

\* Only a thread between calls, or in a call that keeps its reference, owns one.
\* addWeakRef has a weak reference to add.
Owners ==
  /\ \A t \in held : pc[t] \in {"idle", "add", "unlink", "unref"}
  /\ \A t \in Threads : pc[t] = "add" => arg[t] \in WeakRefs

\* At most one thread ever destroys.
OneDestroyer ==
  /\ destroys <= 1
  /\ destroys > 0 => \A t \in Threads : pc[t] \notin DyingSteps
  /\ \A t, u \in Threads : pc[t] \in DyingSteps /\ pc[u] \in DyingSteps => t = u

RefInv ==
  /\ TypeOK
  /\ Counts
  /\ Owners
  /\ OneDestroyer
  /\ DestructionIsFinal
  /\ DestroyedOnce

-----------------------------------------------------------------------------
\* Cardinalities of the set of owners.
LEMMA HeldFinite ==
  ASSUME NEW S \in SUBSET Threads
  PROVE  /\ IsFiniteSet(S)
         /\ Cardinality(S) \in Nat
         /\ Cardinality(S) = 0 <=> S = {}
         /\ \A x : Cardinality(S \cup {x}) = IF x \in S THEN Cardinality(S) ELSE Cardinality(S) + 1
         /\ \A x : Cardinality(S \ {x}) = IF x \in S THEN Cardinality(S) - 1 ELSE Cardinality(S)
  BY ThreadsFinite, FS_Subset, FS_CardinalityType, FS_EmptySet, FS_AddElement, FS_RemoveElement

LEMMA InitRefInv == Init => RefInv
  <1> SUFFICES ASSUME Init PROVE RefInv
    OBVIOUS
  <1>1. TypeOK
    BY DEF Init, TypeOK, Steps
  <1>2. PICK t \in Threads : held = {t}
    BY DEF Init
  <1>3. Cardinality(held) = 1
    BY <1>2, FS_Singleton
  <1>4. InFlight = {}
    BY DEF Init, InFlight
  <1>5. Counts
    BY <1>3, <1>4, FS_EmptySet DEF Init, Counts
  <1> QED
    BY <1>1, <1>2, <1>5 DEF Init, RefInv, Owners, OneDestroyer, DestructionIsFinal,
         DestroyedOnce, Dying, DyingSteps

\* A thread in flight makes the speculative field positive.
LEMMA InFlightPositive ==
  ASSUME TypeOK, Counts, NEW t \in InFlight
  PROVE  spec \in Nat /\ spec > 0
  <1>1. InFlight \in SUBSET Threads
    BY DEF InFlight
  <1> QED
    BY <1>1, HeldFinite DEF Counts

\* How the set of threads in flight changes when one thread moves.
LEMMA InFlightStep ==
  ASSUME TypeOK, NEW t \in Threads, NEW step \in Steps, Goto(t, step)
  PROVE  InFlight' = IF step \in {"commit", "undo"} THEN InFlight \cup {t} ELSE InFlight \ {t}
  BY DEF TypeOK, Goto, InFlight

\* Every step of the thread t keeps the types, the counts and the owners.
LEMMA CountStep ==
  ASSUME RefInv, [Next]_vars
  PROVE  TypeOK' /\ Counts' /\ Owners'
  <1> USE DEF RefInv, Goto, refCount, weak, call
  <1>0. /\ held \in SUBSET Threads
        /\ InFlight \in SUBSET Threads
    BY DEF TypeOK, InFlight
  <1>1. ASSUME NEW t \in Threads, TryIncRef(t) PROVE TypeOK' /\ Counts' /\ Owners'
    <2>1. TypeOK'
      BY <1>1 DEF TryIncRef, TypeOK, Steps, Speculate
    <2>2. InFlight' = InFlight \cup {t} /\ t \notin InFlight
      BY <1>1, InFlightStep DEF TryIncRef, Steps, InFlight
    <2>3. Counts'
      BY <1>0, <1>1, <2>2, HeldFinite DEF TryIncRef, Counts, Speculate
    <2> QED
      BY <1>1, <2>1, <2>3 DEF TryIncRef, Owners, TypeOK
  <1>2. ASSUME NEW t \in Threads, TryIncRefUndo(t) PROVE TypeOK' /\ Counts' /\ Owners'
    <2>1. InFlight' = InFlight \ {t} /\ t \in InFlight
      BY <1>2, InFlightStep DEF TryIncRefUndo, Steps, InFlight
    <2>2. TypeOK'
      BY <1>2, <2>1, InFlightPositive DEF TryIncRefUndo, TypeOK, Steps
    <2>3. Counts'
      BY <1>0, <1>2, <2>1, HeldFinite DEF TryIncRefUndo, Counts
    <2> QED
      BY <1>2, <2>2, <2>3 DEF TryIncRefUndo, Owners, TypeOK
  <1>3. ASSUME NEW t \in Threads, TryIncRefCommit(t) PROVE TypeOK' /\ Counts' /\ Owners'
    <2>1. InFlight' = InFlight \ {t} /\ t \in InFlight
      BY <1>3, InFlightStep DEF TryIncRefCommit, Steps, InFlight
    <2>2. TypeOK'
      BY <1>3, <2>1, InFlightPositive DEF TryIncRefCommit, TypeOK, Steps
    <2>3. t \notin held
      BY <1>3 DEF TryIncRefCommit, Owners
    <2>4. Counts'
      BY <1>0, <1>3, <2>1, <2>3, HeldFinite DEF TryIncRefCommit, Counts
    <2> QED
      BY <1>3, <2>2, <2>4 DEF TryIncRefCommit, Owners, TypeOK
  <1>4. ASSUME NEW t \in Threads, DecRef(t) PROVE TypeOK' /\ Counts' /\ Owners'
    <2>1. TypeOK'
      BY <1>4 DEF DecRef, TypeOK, Steps
    <2>2. InFlight' = InFlight
      BY <1>4 DEF DecRef, InFlight, TypeOK
    <2>3. Counts'
      BY <1>0, <1>4, <2>2, HeldFinite DEF DecRef, Counts
    <2> QED
      BY <1>4, <2>1, <2>3 DEF DecRef, Owners, TypeOK
  <1>5. ASSUME NEW t \in Threads, NEW u \in Threads, IncRef(t, u)
        PROVE  TypeOK' /\ Counts' /\ Owners'
    <2>0. pc' = pc
      BY <1>0, <1>5, HeldFinite DEF IncRef, Counts
    <2>1. TypeOK'
      BY <1>5, <2>0 DEF IncRef, TypeOK, Steps
    <2>2. InFlight' = InFlight
      BY <2>0 DEF InFlight
    <2>3. Counts'
      BY <1>0, <1>5, <2>2, HeldFinite DEF IncRef, Counts
    <2> QED
      BY <1>5, <2>0, <2>1, <2>3 DEF IncRef, Owners, TypeOK
  <1>6. ASSUME NEW t \in Threads,
               \/ ZapLock(t) \/ ZapRemove(t) \/ ZapStore(t) \/ WeakRefGone(t)
               \/ ZapUnlock(t) \/ Destroy(t)
        PROVE  TypeOK' /\ Counts' /\ Owners'
    <2>1. TypeOK'
      <3>1. ASSUME ZapRemove(t) \/ ZapStore(t) PROVE TypeOK'
        BY <3>1 DEF ZapRemove, ZapStore, TypeOK, Steps
      <3>2. ASSUME ZapLock(t) \/ WeakRefGone(t) \/ ZapUnlock(t) \/ Destroy(t) PROVE TypeOK'
        BY <3>2 DEF ZapLock, WeakRefGone, ZapUnlock, Destroy, TypeOK, Steps
      <3> QED
        BY <1>6, <3>1, <3>2
    <2>2. InFlight' = InFlight /\ UNCHANGED <<spec, real, held>>
      BY <1>6 DEF ZapLock, ZapRemove, ZapStore, WeakRefGone, ZapUnlock, Destroy, InFlight, TypeOK
    <2>3. t \notin held
      BY <1>6 DEF ZapLock, ZapRemove, ZapStore, WeakRefGone, ZapUnlock, Destroy, Owners
    <2> QED
      BY <1>6, <2>1, <2>2, <2>3 DEF ZapLock, ZapRemove, ZapStore, WeakRefGone, ZapUnlock,
           Destroy, Owners, Counts, TypeOK
  <1>7. ASSUME NEW t \in Threads, AddWeakRef(t) \/ DropWeakRef(t) \/ Put(t)
        PROVE  TypeOK' /\ Counts' /\ Owners'
    <2>1. TypeOK'
      BY <1>7 DEF AddWeakRef, DropWeakRef, Put, TypeOK, Steps, Owners
    <2>2. InFlight' = InFlight /\ UNCHANGED <<spec, real, held>>
      BY <1>7 DEF AddWeakRef, DropWeakRef, Put, InFlight, TypeOK
    <2> QED
      BY <1>7, <2>1, <2>2 DEF AddWeakRef, DropWeakRef, Put, Owners, Counts, TypeOK
  <1>8. ASSUME NEW t \in Threads, NEW w \in WeakRefs, NewWeakRef(t, w) \/ Get(t, w) \/ Drop(t, w)
        PROVE  TypeOK' /\ Counts' /\ Owners'
    <2>1. TypeOK'
      BY <1>8 DEF NewWeakRef, Get, Drop, TypeOK, Steps
    <2>2. InFlight' = InFlight /\ UNCHANGED <<spec, real, held>>
      BY <1>8 DEF NewWeakRef, Get, Drop, InFlight, TypeOK
    <2> QED
      BY <1>8, <2>1, <2>2 DEF NewWeakRef, Get, Drop, Owners, Counts, TypeOK
  <1>9. CASE UNCHANGED vars
    BY <1>9 DEF vars, TypeOK, Counts, Owners, InFlight
  <1> QED
    BY <1>1, <1>2, <1>3, <1>4, <1>5, <1>6, <1>7, <1>8, <1>9 DEF Next, Thread

\* Every step keeps the facts about destruction.
LEMMA DestroyStep ==
  ASSUME RefInv, [Next]_vars
  PROVE  OneDestroyer' /\ DestructionIsFinal' /\ DestroyedOnce'
  <1> DEFINE Goal == OneDestroyer' /\ DestructionIsFinal' /\ DestroyedOnce'
  <1> USE DEF RefInv, Goto, refCount, weak, call, OneDestroyer, DestructionIsFinal,
              DestroyedOnce, Dying, DyingSteps
  <1>0. /\ held \in SUBSET Threads
        /\ InFlight \in SUBSET Threads
    BY DEF TypeOK, InFlight
  \* A thread with a reference knows that nobody destroys.
  <1>1. ASSUME NEW t \in Threads, DecRef(t) PROVE Goal
    <2>1. CASE LastReference
      <3>1. InFlight = {}
        BY <1>0, <2>1, HeldFinite DEF LastReference, Counts
      <3>2. Cardinality(held \ {t}) = 0
        BY <1>0, <1>1, <2>1, HeldFinite DEF DecRef, LastReference, Counts
      <3>3. held' = {}
        <4>1. held \ {t} \in SUBSET Threads
          BY <1>0
        <4> QED
          BY <1>1, <3>2, <4>1, HeldFinite DEF DecRef
      <3> QED
        BY <1>1, <2>1, <3>1, <3>3 DEF DecRef, InFlight, TypeOK, LastReference
    <2>2. CASE ~LastReference
      <3>1. real' >= -1
        BY <1>0, <1>1, HeldFinite DEF DecRef, Counts
      <3> QED
        BY <1>1, <2>2, <3>1 DEF DecRef, TypeOK
    <2> QED
      BY <2>1, <2>2
  <1>2. ASSUME NEW t \in Threads, NEW u \in Threads, IncRef(t, u) PROVE Goal
    <2>1. pc' = pc
      BY <1>0, <1>2, HeldFinite DEF IncRef, Counts
    <2> QED
      BY <1>2, <2>1 DEF IncRef, TypeOK
  <1>3. ASSUME NEW t \in Threads, TryIncRef(t) PROVE Goal
    <2>1. Dying => real = -1
      BY <1>0, HeldFinite DEF Counts
    <2> QED
      BY <1>3, <2>1 DEF TryIncRef, Freed, TypeOK
  <1>4. ASSUME NEW t \in Threads, TryIncRefUndo(t) \/ TryIncRefCommit(t) PROVE Goal
    BY <1>4 DEF TryIncRefUndo, TryIncRefCommit, TypeOK
  <1>5. ASSUME NEW t \in Threads, ZapLock(t) \/ ZapRemove(t) \/ ZapStore(t) \/ WeakRefGone(t) \/ ZapUnlock(t)
        PROVE  Goal
    <2>1. PICK step \in DyingSteps : Goto(t, step)
      BY <1>5 DEF ZapLock, ZapRemove, ZapStore, WeakRefGone, ZapUnlock
    <2>2. pc[t] \in DyingSteps /\ UNCHANGED <<held, destroys>>
      BY <1>5 DEF ZapLock, ZapRemove, ZapStore, WeakRefGone, ZapUnlock
    <2> QED
      BY <2>1, <2>2 DEF TypeOK
  <1>6. ASSUME NEW t \in Threads, Destroy(t) PROVE Goal
    BY <1>6 DEF Destroy, TypeOK
  <1>7. ASSUME NEW t \in Threads, AddWeakRef(t) \/ DropWeakRef(t) \/ Put(t) PROVE Goal
    BY <1>7 DEF AddWeakRef, DropWeakRef, Put, TypeOK
  <1>8. ASSUME NEW t \in Threads, NEW w \in WeakRefs, NewWeakRef(t, w) \/ Get(t, w) \/ Drop(t, w)
        PROVE  Goal
    BY <1>8 DEF NewWeakRef, Get, Drop, TypeOK
  <1>9. CASE UNCHANGED vars
    BY <1>9 DEF vars
  <1> QED
    BY <1>1, <1>2, <1>3, <1>4, <1>5, <1>6, <1>7, <1>8, <1>9 DEF Next, Thread

LEMMA RefInvInvariant == Spec => []RefInv
  <1>1. RefInv /\ [Next]_vars => RefInv'
    BY CountStep, DestroyStep DEF RefInv
  <1> QED
    BY InitRefInv, <1>1, PTL DEF Spec

\* Every variable keeps its type; in particular the speculative field never
\* goes below zero.
THEOREM TypeCorrect == Spec => []TypeOK
  BY RefInvInvariant, PTL DEF RefInv

\* Once DecRefWithDestructor has decided to destroy the object no reference
\* to it exists or can come into being.
THEOREM DestructionFinal == Spec => []DestructionIsFinal
  BY RefInvInvariant, PTL DEF RefInv

\* The destructor runs at most once and no sanity check of the counter panics.
THEOREM AtMostOneDestroy == Spec => []DestroyedOnce
  BY RefInvInvariant, PTL DEF RefInv

\* AtomicRefCount destroys the object once and for good.
THEOREM DestructionSound == Spec => []DestructionIsSound
<1>1. TypeOK /\ DestructionIsFinal /\ DestroyedOnce => DestructionIsSound
  BY DEF DestructionIsSound
<1> QED
  BY TypeCorrect, DestructionFinal, AtMostOneDestroy, <1>1, PTL
=============================================================================
