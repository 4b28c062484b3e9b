---------------------------- MODULE TMutexProofs ----------------------------
(***************************************************************************)
(* Proofs about TMutex, for any set of goroutines.                         *)
(*                                                                         *)
(* The invariant ties the counter to the owner: the mutex is free exactly  *)
(* when nobody holds it, and at most one goroutine does.  With that the    *)
(* property that nobody is forgotten is inductive.                         *)
(***************************************************************************)
EXTENDS TMutex, TLAPS

\* The counter says whether the mutex is held.
Counts ==
  /\ v = 1 => \A g \in Goroutines : locker[g] # "held"
  /\ v # 1 => \E g \in Goroutines : locker[g] = "held"

OneOwner ==
  \A g, h \in Goroutines : locker[g] = "held" /\ locker[h] = "held" => g = h

IInv == MutexTypeOK /\ Counts /\ OneOwner /\ NobodyIsForgotten

\* A goroutine of tmutex.go is at one place: what LockerAt does to it and to
\* the others.
LEMMA MovesOne ==
  ASSUME MutexTypeOK, NEW g \in Goroutines, NEW place, LockerAt(g, place)
  PROVE  /\ locker'[g] = place
         /\ \A h \in Goroutines \ {g} : locker'[h] = locker[h]
  BY DEF MutexTypeOK, LockerAt

\* Every instruction of Lock, TryLock and Unlock preserves the type invariant.
LEMMA TypeStep ==
  ASSUME MutexTypeOK, MutexNext
  PROVE  MutexTypeOK'
<1>1. PICK g \in Goroutines :
        Lock(g) \/ TryLock(g) \/ TryLockFails(g) \/ Unlock(g) \/ MutexStep(g)
  BY DEF MutexNext
<1>2. CASE Lock(g)
  BY <1>2 DEF MutexTypeOK, Lock, LockerAt
<1>3. CASE TryLock(g) \/ TryLockFails(g) \/ Unlock(g)
  BY <1>3 DEF MutexTypeOK, TryLock, TryLockFails, Unlock, LockerAt, mutexVars
<1>4. CASE MutexStep(g)
  BY <1>4 DEF MutexTypeOK, MutexStep, LockLoad, LockSwap, LockWait, UnlockWake, LockerAt
<1> QED BY <1>1, <1>2, <1>3, <1>4

\* The owner changes with the counter.
LEMMA OwnerStep ==
  ASSUME IInv, MutexNext
  PROVE  Counts' /\ OneOwner'
<1> USE DEF IInv
<1>1. PICK g \in Goroutines :
        Lock(g) \/ TryLock(g) \/ TryLockFails(g) \/ Unlock(g) \/ MutexStep(g)
  BY DEF MutexNext
<1>2. CASE Lock(g)
  <2>1. v \in Int /\ v <= 1
    BY DEF MutexTypeOK
  <2>2. CASE v = 1
    BY <1>2, <2>2, MovesOne DEF Lock, Counts, OneOwner
  <2>3. CASE v # 1
    <3>1. v' # 1 /\ LockerAt(g, "load") /\ locker[g] = "out"
      BY <1>2, <2>1, <2>3 DEF Lock
    <3> QED BY <2>3, <3>1, MovesOne DEF Counts, OneOwner
  <2> QED BY <2>2, <2>3
<1>3. CASE TryLock(g)
  <2>1. v = 1 /\ v' = 0 /\ LockerAt(g, "held")
    BY <1>3 DEF TryLock
  <2> QED BY <2>1, MovesOne DEF Counts, OneOwner
<1>4. CASE TryLockFails(g)
  BY <1>4 DEF TryLockFails, mutexVars, Counts, OneOwner
<1>5. CASE Unlock(g)
  <2>1. /\ locker[g] = "held" /\ v' = 1
        /\ LockerAt(g, IF v = 0 THEN "out" ELSE "wake")
    BY <1>5 DEF Unlock
  <2>2. \A h \in Goroutines : locker'[h] # "held"
    BY <2>1, MovesOne DEF OneOwner
  <2> QED BY <2>1, <2>2 DEF Counts, OneOwner
<1>6. CASE LockSwap(g)
  <2>1. locker[g] = "swap" /\ v' = -1
    BY <1>6 DEF LockSwap
  <2>2. CASE v = 1
    <3>1. LockerAt(g, "held")
      BY <1>6, <2>2 DEF LockSwap
    <3> QED BY <2>1, <2>2, <3>1, MovesOne DEF Counts, OneOwner
  <2>3. CASE v # 1
    <3>1. LockerAt(g, "wait")
      BY <1>6, <2>3 DEF LockSwap
    <3> QED BY <2>1, <2>3, <3>1, MovesOne DEF Counts, OneOwner
  <2> QED BY <2>2, <2>3
<1>7. CASE LockLoad(g) \/ LockWait(g) \/ UnlockWake(g)
  <2>1. PICK place \in {"swap", "wait", "load", "out"} : LockerAt(g, place)
    BY <1>7 DEF LockLoad, LockWait, UnlockWake
  <2>2. locker[g] # "held" /\ v' = v
    BY <1>7 DEF LockLoad, LockWait, UnlockWake
  <2> QED BY <2>1, <2>2, MovesOne DEF Counts, OneOwner
<1> QED BY <1>1, <1>2, <1>3, <1>4, <1>5, <1>6, <1>7 DEF MutexStep

\* Whoever goes to wait, takes the mutex or frees it leaves somebody who will
\* put a token into the channel.
LEMMA WakeStep ==
  ASSUME IInv, MutexNext
  PROVE  NobodyIsForgotten'
<1> USE DEF IInv
<1>1. PICK g \in Goroutines :
        Lock(g) \/ TryLock(g) \/ TryLockFails(g) \/ Unlock(g) \/ MutexStep(g)
  BY DEF MutexNext
<1> v \in Int /\ v <= 1
  BY DEF MutexTypeOK
<1>2. CASE v = 1 /\ (Lock(g) \/ TryLock(g))
  <2>1. LockerAt(g, "held") /\ locker[g] = "out" /\ ch' = ch
    BY <1>2 DEF Lock, TryLock
  <2> QED BY <1>2, <2>1, MovesOne DEF NobodyIsForgotten
<1>3. CASE v # 1 /\ Lock(g)
  <2>1. LockerAt(g, "load")
    BY <1>3 DEF Lock
  <2> QED BY <2>1, MovesOne DEF NobodyIsForgotten
<1>4. CASE TryLockFails(g)
  BY <1>4 DEF TryLockFails, mutexVars, NobodyIsForgotten
<1>5. CASE Unlock(g)
  <2>1. v # 1
    BY <1>5 DEF Unlock, Counts
  <2>2. CASE v = 0
    <3>1. LockerAt(g, "out") /\ locker[g] = "held" /\ ch' = ch
      BY <1>5, <2>2 DEF Unlock
    <3> QED BY <2>2, <3>1, MovesOne DEF NobodyIsForgotten
  <2>3. CASE v # 0
    <3>1. LockerAt(g, "wake")
      BY <1>5, <2>3 DEF Unlock
    <3> QED BY <3>1, MovesOne DEF NobodyIsForgotten
  <2> QED BY <2>2, <2>3
<1>6. CASE LockLoad(g)
  <2>1. v' = v /\ locker[g] = "load"
    BY <1>6 DEF LockLoad
  <2>2. CASE v >= 0
    <3>1. LockerAt(g, "swap")
      BY <1>6, <2>2 DEF LockLoad
    <3> QED BY <3>1, MovesOne DEF NobodyIsForgotten
  <2>3. CASE ~(v >= 0)
    <3>1. PICK h \in Goroutines : locker[h] = "held"
      BY <2>3 DEF Counts
    <3>2. LockerAt(g, "wait")
      BY <1>6, <2>3 DEF LockLoad
    <3>3. v' < 0 /\ locker'[h] = "held"
      BY <2>1, <2>3, <3>1, <3>2, MovesOne
    <3> QED BY <3>3 DEF NobodyIsForgotten
  <2> QED BY <2>2, <2>3
<1>7. CASE LockSwap(g)
  <2>1. \E h \in Goroutines : locker'[h] = "held"
    <3>1. CASE v = 1
      <4>1. LockerAt(g, "held")
        BY <1>7, <3>1 DEF LockSwap
      <4> QED BY <4>1, MovesOne
    <3>2. CASE v # 1
      <4>1. LockerAt(g, "wait") /\ locker[g] = "swap"
        BY <1>7, <3>2 DEF LockSwap
      <4>2. PICK h \in Goroutines : locker[h] = "held"
        BY <3>2 DEF Counts
      <4> QED BY <4>1, <4>2, MovesOne
    <3> QED BY <3>1, <3>2
  <2>2. v' < 0
    BY <1>7 DEF LockSwap
  <2> QED BY <2>1, <2>2 DEF NobodyIsForgotten
<1>8. CASE LockWait(g)
  <2>1. LockerAt(g, "load")
    BY <1>8 DEF LockWait
  <2> QED BY <2>1, MovesOne DEF NobodyIsForgotten
<1>9. CASE UnlockWake(g)
  BY <1>9 DEF UnlockWake, NobodyIsForgotten
<1> QED BY <1>1, <1>2, <1>3, <1>4, <1>5, <1>6, <1>7, <1>8, <1>9
        DEF MutexStep, TryLock

\* tmutex.go: for any number of goroutines the mutex has one owner at a time,
\* and whoever waits for the channel will find a token in it.
THEOREM MutexSound == MutexSpec => []MutexIsSound
<1>1. MutexInit => IInv
  BY DEF MutexInit, IInv, MutexTypeOK, Counts, OneOwner, NobodyIsForgotten
<1>2. IInv /\ [MutexNext]_mutexVars => IInv'
  <2> SUFFICES ASSUME IInv, [MutexNext]_mutexVars PROVE IInv'
    OBVIOUS
  <2>1. CASE MutexNext
    BY <2>1, TypeStep, OwnerStep, WakeStep DEF IInv
  <2>2. CASE UNCHANGED mutexVars
    BY <2>2 DEF IInv, mutexVars, MutexTypeOK, Counts, OneOwner, NobodyIsForgotten
  <2> QED BY <2>1, <2>2
<1>3. IInv => MutexIsSound
  BY DEF IInv, MutexIsSound, MutualExclusion, Counts, OneOwner
<1> QED BY <1>1, <1>2, <1>3, PTL DEF MutexSpec
=============================================================================
